---- MODULE Spec2Model ----
(***************************************************************************)
(* Digital-twin IoT simulator: the device models (CPU, memory, battery,    *)
(* network, sensor node), the sync engine, the twin and the tick loop.      *)
(*                                                                         *)
(* Numbers are fixed point.  Units:                                        *)
(*   charge       1/3600 mAh (= 1 mA for 1 s), so 0.01 mAh = 36 units      *)
(*   time         milliseconds                                             *)
(*   memory       0.001 KB, so 0.01 KB = 10 units                          *)
(*   utilization  1e-5 (100000 = 1.0), so 1e-4 = 10 units                  *)
(*   drift        1e-5 (100000 = 1.0)                                      *)
(*   percentage   0.01 % (10000 = 100 %)                                   *)
(* The append-only histories of the four device models, which only the     *)
(* end-of-run report reads, are kept by their length.                       *)
(***************************************************************************)
EXTENDS Integers, Sequences, FiniteSets, TLC

\* ------------------------------------------------------------------ bounds
\* Calls made on one component in the component-level specifications.
MaxCalls == 4
MaxMemCalls == 6
MaxNetCalls == 5
MaxSyncCalls == 3
MaxTwinCalls == 4
MaxFaultCalls == 3
MaxPredictCalls == 61
\* Iterations of a run long enough to feed the predictor.
MaxRunTicks == 10
\* the syncs of the delta strategy that are replayed
MaxDeltaCalls == 4
\* the runs of run_simulation made one after the other in one process
MaxRuns == 2
\* Iterations of the simulation loop (total_ticks of run_simulation).
total_ticks == 6

\* ------------------------------------------------------- configuration
\* config["device"]["battery"]
capacity_mah == 380
current_draw_ma ==
  [sensing |-> 15, processing |-> 25, transmission |-> 120, idle |-> 5]
\* sorted(warning_thresholds, reverse=True), in percent of the capacity
warning_thresholds == <<50, 20>>
\* config["simulation"]
time_step_ms == 1000
sampling_rate_s == 2
\* config["device"]["memory"]
total_ram_kb == 8000
base_usage_kb == 2000
per_reading_buffer_kb == 1000
max_buffer_readings == 3
leak_enabled == TRUE
leak_rate_kb_per_minute == 120300
\* config["device"]["processor"]: clock_mhz = 1
max_cycles_per_tick == 1000000
task_costs ==
  [sensing_cycles |-> 300000, processing_cycles |-> 640000, transmission_cycles |-> 100000]
\* config["device"]["network"]; the two loss rates lie strictly between 0 and 1
max_bandwidth_kbps == 1
max_payload_bytes == 200
congestion_threshold == 50000
\* config["sync"]
full_state_interval_s == 2
high_battery_interval_s == 1
medium_battery_interval_s == 2
low_battery_interval_s == 3
high_battery_threshold == 5000
low_battery_threshold == 1500
\* sync.delta_threshold (0.02), in hundredths
delta_threshold == 2
\* sync.event_change_threshold (0.05), in 1/One
event_change_threshold == 5000

\* config["fault_detection"]: utilizations, loss rate and drift in 1/One, the
\* battery thresholds (0.05, 0.20) in the unit of percentage, durations in checks
cpu_critical_threshold == 90000
cpu_critical_duration_s == 2
cpu_warning_threshold == 75000
cpu_warning_duration_s == 2
memory_critical_threshold == 95000
memory_warning_threshold == 80000
battery_critical_threshold == 500
battery_warning_threshold == 2000
bandwidth_warning_threshold == 80000
packet_loss_critical_threshold == 10000
state_drift_warning_threshold == 5000
communication_timeout_multiplier == 1
\* alert_dedup_window of _run_loop
alert_dedup_window == 60

\* 1.0 as a utilization, a drift or a fraction
\* predictive_maintenance.py: prediction_window, the samples a prediction
\* needs, and the 9999 hours that stand for no ETA, in 0.01 h
prediction_window == 300
min_history == 60
no_eta_hours == 999900
\* config["simulation"]["random_seed"]
random_seed == 42
\* config["edge"]["enabled"]
edge_enabled == TRUE
\* datetime.now() when the logger is made, as a time of day in seconds
StartedAt == 1
One == 100000

\* ----------------------------------------------------------------- helpers
Max(a, b) == IF a >= b THEN a ELSE b
Min(a, b) == IF a <= b THEN a ELSE b
Abs(a) == IF a >= 0 THEN a ELSE -a

RECURSIVE SumOver(_, _)
\* sum(f.values()) over the keys S of a dict f
SumOver(f, S) ==
  IF S = {} THEN 0
  ELSE LET k == CHOOSE x \in S : TRUE IN f[k] + SumOver(f, S \ {k})

\* round(n / d): nearest integer, a tie going to the even neighbour (n >= 0, d > 0)
RoundDiv(n, d) ==
  LET q == n \div d
      r == n % d
  IN IF 2 * r < d THEN q
     ELSE IF 2 * r > d THEN q + 1
     ELSE IF q % 2 = 0 THEN q ELSE q + 1

\* round(x, k) on a fixed-point x: the nearest multiple of the quantum
RoundTo(x, quantum) == RoundDiv(x, quantum) * quantum

VARIABLES
  config,         \* the configuration run_simulation was given
  device,         \* SensorNode and the component models it owns
  twin,           \* DigitalTwin
  sync_engine,    \* SyncEngine and its strategy
  pc,             \* position in _run_loop
  tick,           \* the loop variable of _run_loop
  device_result,  \* what device.tick returned in this iteration
  device_state,   \* the snapshot get_full_state returned in this iteration
  warnings_fired, \* per threshold: how many checks have returned it
  calls,          \* calls made so far (component-level specifications)
  ret,            \* the last call and what it returned
  fault_detector, \* FaultDetector
  last_alert_ticks, \* _run_loop: per (component, severity), the tick of the last alert let through
  live_output,    \* the alerts print_live_tick has shown, in order
  edge,           \* EdgeProcessor and its PriorityDataQueue
  predictive,     \* PredictiveMaintenance
  logger,         \* SimulationLogger
  np_random,      \* the state of numpy's global generator
  runs            \* what the runs of run_simulation have put out, tick by tick

vars == <<config, device, twin, sync_engine, pc, tick, device_result, device_state,
          warnings_fired, calls, ret, fault_detector, last_alert_ticks, live_output,
          edge, predictive, logger, np_random, runs>>

battery == device.battery
memory == device.memory
cpu == device.cpu
network == device.network

\* ---------------------------------------------------------- BatteryModel
BatteryModel_init ==
  [remaining_mah |-> capacity_mah,
   total_consumed_mah |-> 0,
   energy_breakdown |-> [sensing |-> 0, processing |-> 0, transmission |-> 0, idle |-> 0],
   warnings_triggered |-> {},
   depleted |-> FALSE,
   drain_history_len |-> 0]

\* current_draw_ma.get(operation, 0.0) * (duration_s / 3600.0)
consumed_mah(operation, duration_ms) ==
  LET current_ma == IF operation \in DOMAIN current_draw_ma
                    THEN current_draw_ma[operation] ELSE 0
  IN (current_ma * duration_ms) \div 1000

\* a consume that lacks the depleted guard
consume_unguarded(b, operation, duration_ms) ==
  LET c == consumed_mah(operation, duration_ms)
      rem == Max(0, b.remaining_mah - c)
      old == IF operation \in DOMAIN b.energy_breakdown
             THEN b.energy_breakdown[operation] ELSE 0
  IN [b EXCEPT !.remaining_mah = rem,
               !.total_consumed_mah = @ + c,
               !.energy_breakdown =
                  [k \in DOMAIN b.energy_breakdown \cup {operation} |->
                     IF k = operation THEN old + c ELSE b.energy_breakdown[k]],
               !.depleted = (rem <= 0)]

\* a consume that books only the charge actually drawn into the breakdown
consume_clipped(b, operation, duration_ms) ==
  IF b.depleted THEN b
  ELSE
    LET c == consumed_mah(operation, duration_ms)
        rem == Max(0, b.remaining_mah - c)
        old == IF operation \in DOMAIN b.energy_breakdown
               THEN b.energy_breakdown[operation] ELSE 0
    IN [b EXCEPT !.remaining_mah = rem,
                 !.total_consumed_mah = @ + c,
                 !.energy_breakdown =
                    [k \in DOMAIN b.energy_breakdown \cup {operation} |->
                       IF k = operation THEN old + Min(c, b.remaining_mah)
                       ELSE b.energy_breakdown[k]],
                 !.depleted = (rem <= 0)]

consume(b, operation, duration_ms) ==
  IF b.depleted THEN b
  ELSE
    LET c == consumed_mah(operation, duration_ms)
        rem == Max(0, b.remaining_mah - c)
        old == IF operation \in DOMAIN b.energy_breakdown
               THEN b.energy_breakdown[operation] ELSE 0
    IN [b EXCEPT !.remaining_mah = rem,
                 !.total_consumed_mah = @ + c,
                 !.energy_breakdown =
                    [k \in DOMAIN b.energy_breakdown \cup {operation} |->
                       IF k = operation THEN old + c ELSE b.energy_breakdown[k]],
                 !.depleted = IF rem <= 0 THEN TRUE ELSE b.depleted]

RECURSIVE consume_each(_, _, _)
\* for op in active_operations: self.consume(op, time_step_s)
consume_each(b, ops, duration_ms) ==
  IF ops = <<>> THEN b
  ELSE consume_each(consume(b, Head(ops), duration_ms), Tail(ops), duration_ms)

BatteryModel_tick(b, active_operations, duration_ms) ==
  IF b.depleted
  THEN [b EXCEPT !.drain_history_len = @ + 1]
  ELSE
    LET b1 == IF active_operations # <<>>
              THEN consume_each(b, active_operations, duration_ms)
              ELSE consume(b, "idle", duration_ms)
    IN [b1 EXCEPT !.drain_history_len = @ + 1]

\* self.remaining_mah / self.capacity_mah <= threshold
AtOrBelow(b, threshold) == b.remaining_mah * 100 <= threshold * capacity_mah

RECURSIVE check_from(_, _, _)
\* the loop of check_warnings over the thresholds still to look at
check_from(b, todo, new_warnings) ==
  IF todo = <<>> THEN [battery |-> b, new_warnings |-> new_warnings]
  ELSE
    LET threshold == Head(todo)
    IN IF AtOrBelow(b, threshold) /\ threshold \notin b.warnings_triggered
       THEN check_from([b EXCEPT !.warnings_triggered = @ \cup {threshold}],
                       Tail(todo), Append(new_warnings, threshold))
       ELSE check_from(b, Tail(todo), new_warnings)

\* a check_warnings that looks at the highest threshold only
check_warnings_first_only(b) == check_from(b, SubSeq(warning_thresholds, 1, 1), <<>>)

\* a check_warnings that never records what it has reported
check_warnings_forgetful(b) ==
  [battery |-> b,
   new_warnings |-> SelectSeq(warning_thresholds, LAMBDA t : AtOrBelow(b, t))]

check_warnings(b) == check_from(b, warning_thresholds, <<>>)

SeqToSet(s) == {s[i] : i \in DOMAIN s}

\* the bookkeeping of fired warnings, given the list one check returned
Fired(new_warnings) ==
  [t \in DOMAIN warnings_fired |->
     warnings_fired[t] + Cardinality({i \in DOMAIN new_warnings : new_warnings[i] = t})]

\* ----------------------------------------------------------- MemoryModel
MemoryModel_init ==
  [current_usage_kb |-> base_usage_kb,
   buffer_count |-> 0,
   leaked_kb |-> 0,
   peak_usage_kb |-> base_usage_kb,
   oom_events |-> 0,
   usage_history_len |-> 0]

\* an _update_usage that does not cap the usage at the RAM size
update_usage_uncapped(m) ==
  LET usage == base_usage_kb + m.buffer_count * per_reading_buffer_kb + m.leaked_kb
  IN [m EXCEPT !.current_usage_kb = usage,
               !.oom_events = IF usage >= total_ram_kb THEN @ + 1 ELSE @,
               !.peak_usage_kb = IF usage > @ THEN usage ELSE @]

\* _update_usage
update_usage(m) ==
  LET usage == base_usage_kb + m.buffer_count * per_reading_buffer_kb + m.leaked_kb
      capped == IF usage >= total_ram_kb THEN total_ram_kb ELSE usage
  IN [m EXCEPT !.current_usage_kb = capped,
               !.oom_events = IF usage >= total_ram_kb THEN @ + 1 ELSE @,
               !.peak_usage_kb = IF capped > @ THEN capped ELSE @]

allocate_sensor_buffer(m) ==
  IF m.buffer_count < max_buffer_readings
  THEN update_usage([m EXCEPT !.buffer_count = @ + 1])
  ELSE m

\* count is <<>> for None (the default) and <<n>> for the number n
free_sensor_buffers(m, count) ==
  LET n == IF count = <<>> THEN m.buffer_count ELSE count[1]
  IN update_usage([m EXCEPT !.buffer_count = Max(0, @ - n)])

\* leak_rate_kb_per_minute * (time_step_s / 60.0)
leak_this_tick(duration_ms) == (leak_rate_kb_per_minute * duration_ms) \div 60000

MemoryModel_tick(m, duration_ms) ==
  LET m1 == IF leak_enabled /\ leak_rate_kb_per_minute > 0
            THEN [m EXCEPT !.leaked_kb = @ + leak_this_tick(duration_ms)]
            ELSE m
  IN [update_usage(m1) EXCEPT !.usage_history_len = @ + 1]

\* get_utilization: current_usage_kb / total_ram_kb
memory_utilization(m) == (m.current_usage_kb * One) \div total_ram_kb

\* -------------------------------------------------------------- CPUModel
CPUModel_init ==
  [current_utilization |-> 0,
   cycles_used_this_tick |-> 0,
   task_queue |-> <<>>,
   total_cycles_used |-> 0,
   peak_utilization |-> 0,
   overload_events |-> 0,
   consecutive_overload_ticks |-> 0,
   utilization_history_len |-> 0]

\* self.task_costs.get(f"{task_type}_cycles", 0)
task_cost(task_type) ==
  CASE task_type = "sensing" -> task_costs.sensing_cycles
    [] task_type = "processing" -> task_costs.processing_cycles
    [] task_type = "transmission" -> task_costs.transmission_cycles
    [] OTHER -> 0

schedule_task(c, task_type) ==
  [c EXCEPT !.task_queue = Append(@, <<task_type, task_cost(task_type)>>)]

RECURSIVE queue_cycles(_)
\* for task_type, cost in self.task_queue: cycles += cost
queue_cycles(q) == IF q = <<>> THEN 0 ELSE Head(q)[2] + queue_cycles(Tail(q))

\* a tick that overwrites the peak with the current utilization
CPUModel_tick_peak_reset(c, duration_ms, jitter) ==
  LET cycles == queue_cycles(c.task_queue)
      available_cycles == (max_cycles_per_tick * duration_ms) \div 1000
      base == IF available_cycles > 0
              THEN Min(cycles \div (available_cycles \div One), One)
              ELSE 0
      util == Max(0, Min(One, base + jitter))
  IN [c EXCEPT !.cycles_used_this_tick = cycles,
               !.current_utilization = util,
               !.total_cycles_used = @ + cycles,
               !.peak_utilization = util,
               !.consecutive_overload_ticks = IF util > 90000 THEN @ + 1 ELSE 0,
               !.overload_events = IF util > 95000 THEN @ + 1 ELSE @,
               !.utilization_history_len = @ + 1,
               !.task_queue = <<>>]

\* a tick that leaves the tasks it has counted in the queue
CPUModel_tick_keeps_queue(c, duration_ms, jitter) ==
  LET cycles == queue_cycles(c.task_queue)
      available_cycles == (max_cycles_per_tick * duration_ms) \div 1000
      base == IF available_cycles > 0
              THEN Min(cycles \div (available_cycles \div One), One)
              ELSE 0
      util == Max(0, Min(One, base + jitter))
  IN [c EXCEPT !.cycles_used_this_tick = cycles,
               !.current_utilization = util,
               !.total_cycles_used = @ + cycles,
               !.peak_utilization = IF util > @ THEN util ELSE @,
               !.consecutive_overload_ticks = IF util > 90000 THEN @ + 1 ELSE 0,
               !.overload_events = IF util > 95000 THEN @ + 1 ELSE @,
               !.utilization_history_len = @ + 1]

\* jitter is the draw of np.random.normal(0, 0.02)
CPUModel_tick(c, duration_ms, jitter) ==
  LET cycles == queue_cycles(c.task_queue)
      available_cycles == (max_cycles_per_tick * duration_ms) \div 1000
      base == IF available_cycles > 0
              THEN Min(cycles \div (available_cycles \div One), One)
              ELSE 0
      util == Max(0, Min(One, base + jitter))
  IN [c EXCEPT !.cycles_used_this_tick = cycles,
               !.current_utilization = util,
               !.total_cycles_used = @ + cycles,
               !.peak_utilization = IF util > @ THEN util ELSE @,
               !.consecutive_overload_ticks = IF util > 90000 THEN @ + 1 ELSE 0,
               !.overload_events = IF util > 95000 THEN @ + 1 ELSE @,
               !.utilization_history_len = @ + 1,
               !.task_queue = <<>>]

\* ---------------------------------------------------------- NetworkModel
NetworkModel_init ==
  [bytes_sent_this_tick |-> 0,
   total_bytes_sent |-> 0,
   total_packets_sent |-> 0,
   total_packets_lost |-> 0,
   current_bandwidth_utilization |-> 0,
   peak_bandwidth_utilization |-> 0,
   congestion_events |-> 0,
   utilization_history_len |-> 0]

\* a transmit that does not count a lost packet as sent
transmit_lost_uncounted(n, payload_bytes, packet_lost) ==
  LET is_congested == n.current_bandwidth_utilization >= congestion_threshold
      actual_bytes == Min(payload_bytes, max_payload_bytes)
  IN IF packet_lost
     THEN [network |-> [n EXCEPT !.total_packets_lost = @ + 1],
           result |-> [success |-> FALSE, bytes_sent |-> 0, packet_loss |-> TRUE,
                       congested |-> is_congested, reason |-> "packet_loss"]]
     ELSE [network |-> [n EXCEPT !.bytes_sent_this_tick = @ + actual_bytes,
                                 !.total_bytes_sent = @ + actual_bytes,
                                 !.total_packets_sent = @ + 1],
           result |-> [success |-> TRUE, bytes_sent |-> actual_bytes, packet_loss |-> FALSE,
                       congested |-> is_congested, reason |-> "sent"]]

\* packet_lost is the outcome of np.random.random() < loss_rate
transmit(n, payload_bytes, packet_lost) ==
  LET is_congested == n.current_bandwidth_utilization >= congestion_threshold
      actual_bytes == Min(payload_bytes, max_payload_bytes)
  IN IF packet_lost
     THEN [network |-> [n EXCEPT !.total_packets_lost = @ + 1,
                                 !.total_packets_sent = @ + 1],
           result |-> [success |-> FALSE, bytes_sent |-> 0, packet_loss |-> TRUE,
                       congested |-> is_congested, reason |-> "packet_loss"]]
     ELSE [network |-> [n EXCEPT !.bytes_sent_this_tick = @ + actual_bytes,
                                 !.total_bytes_sent = @ + actual_bytes,
                                 !.total_packets_sent = @ + 1],
           result |-> [success |-> TRUE, bytes_sent |-> actual_bytes, packet_loss |-> FALSE,
                       congested |-> is_congested, reason |-> "sent"]]

\* (max_bandwidth_kbps * 1000 / 8) * time_step_s
max_bytes_in(duration_ms) == (max_bandwidth_kbps * 125 * duration_ms) \div 1000

NetworkModel_tick(n, duration_ms) ==
  LET max_bytes == max_bytes_in(duration_ms)
      util == Min(One, IF max_bytes > 0
                       THEN (n.bytes_sent_this_tick * One) \div max_bytes
                       ELSE 0)
  IN [n EXCEPT !.current_bandwidth_utilization = util,
               !.peak_bandwidth_utilization = IF util > @ THEN util ELSE @,
               !.congestion_events = IF util >= congestion_threshold THEN @ + 1 ELSE @,
               !.utilization_history_len = @ + 1,
               !.bytes_sent_this_tick = 0]

\* --------------------------------------------------- SensorDataGenerator
SensorDataGenerator_init == [total_anomalies |-> 0, anomaly_log_len |-> 0]

\* anomalies: the sensors whose anomaly draw came up, temperature first.  The
\* values of the reading are noise no later step of the model reads.
generate_reading(g, anomalies) ==
  [sensors |-> [g EXCEPT !.total_anomalies = @ + Len(anomalies),
                         !.anomaly_log_len = @ + Len(anomalies)],
   reading |-> [anomalies |-> anomalies]]

\* ------------------------------------------------------------ SensorNode
\* An optional value (None or a value) is <<>> or <<value>>.
SensorNode_init ==
  [cpu |-> CPUModel_init,
   memory |-> MemoryModel_init,
   battery |-> BatteryModel_init,
   network |-> NetworkModel_init,
   sensors |-> SensorDataGenerator_init,
   tick_count |-> 0,
   total_readings |-> 0,
   last_reading |-> <<>>,
   is_active |-> TRUE]

\* round(get_packet_loss_rate(), 4)
packet_loss_rate(n) ==
  IF n.total_packets_sent = 0 THEN 0
  ELSE RoundDiv(n.total_packets_lost * 10000, n.total_packets_sent) * 10

\* BatteryModel.get_percentage, rounded as get_state rounds it
percentage(b) == RoundDiv(b.remaining_mah * 10000, capacity_mah)

get_full_state(d) ==
  [cpu |-> [utilization |-> RoundTo(d.cpu.current_utilization, 10),
            cycles_used |-> d.cpu.cycles_used_this_tick,
            peak_utilization |-> RoundTo(d.cpu.peak_utilization, 10),
            overload_events |-> d.cpu.overload_events,
            consecutive_overload_ticks |-> d.cpu.consecutive_overload_ticks],
   memory |-> [used_kb |-> RoundTo(d.memory.current_usage_kb, 10),
               total_kb |-> total_ram_kb,
               utilization |-> RoundTo(memory_utilization(d.memory), 10),
               buffer_count |-> d.memory.buffer_count,
               leaked_kb |-> RoundTo(d.memory.leaked_kb, 10),
               peak_usage_kb |-> RoundTo(d.memory.peak_usage_kb, 10),
               oom_events |-> d.memory.oom_events],
   battery |-> [remaining_mah |-> RoundTo(d.battery.remaining_mah, 36),
                capacity_mah |-> capacity_mah,
                percentage |-> percentage(d.battery),
                total_consumed_mah |-> RoundTo(d.battery.total_consumed_mah, 36),
                depleted |-> d.battery.depleted],
   network |-> [bandwidth_utilization |->
                  RoundTo(d.network.current_bandwidth_utilization, 10),
                peak_bandwidth_utilization |->
                  RoundTo(d.network.peak_bandwidth_utilization, 10),
                total_bytes_sent |-> d.network.total_bytes_sent,
                total_packets_sent |-> d.network.total_packets_sent,
                total_packets_lost |-> d.network.total_packets_lost,
                packet_loss_rate |-> packet_loss_rate(d.network),
                congestion_events |-> d.network.congestion_events],
   sensors |-> [last_reading |-> d.last_reading,
                total_readings |-> d.total_readings,
                anomaly_count |-> d.sensors.total_anomalies],
   is_active |-> d.is_active,
   tick |-> d.tick_count]

get_inactive_state(d) ==
  [tick |-> d.tick_count, is_active |-> FALSE, new_reading |-> <<>>,
   is_sensing_tick |-> FALSE, battery_warnings |-> <<>>]

\* the body of SensorNode.tick below its first test
active_tick(d, duration_ms, jitter, anomalies) ==
  LET tick_count == d.tick_count + 1
      is_sensing_tick == (tick_count % sampling_rate_s = 0)
      g == generate_reading(d.sensors, anomalies)
      cpu1 == IF is_sensing_tick
              THEN schedule_task(schedule_task(d.cpu, "sensing"), "processing")
              ELSE d.cpu
      memory1 == IF is_sensing_tick THEN allocate_sensor_buffer(d.memory) ELSE d.memory
      active_operations == IF is_sensing_tick THEN <<"sensing", "processing">>
                           ELSE <<"idle">>
      w == check_warnings(BatteryModel_tick(d.battery, active_operations, duration_ms))
      d1 == [d EXCEPT !.tick_count = tick_count,
                      !.sensors = IF is_sensing_tick THEN g.sensors ELSE @,
                      !.last_reading = IF is_sensing_tick THEN <<g.reading>> ELSE @,
                      !.total_readings = IF is_sensing_tick THEN @ + 1 ELSE @,
                      !.cpu = CPUModel_tick(cpu1, duration_ms, jitter),
                      !.memory = MemoryModel_tick(memory1, duration_ms),
                      !.battery = w.battery,
                      !.network = NetworkModel_tick(d.network, duration_ms)]
  IN [device |-> d1,
      result |-> [tick |-> tick_count, is_active |-> d1.is_active,
                  new_reading |-> IF is_sensing_tick THEN <<g.reading>> ELSE <<>>,
                  is_sensing_tick |-> is_sensing_tick,
                  battery_warnings |-> w.new_warnings]]

SensorNode_tick(d, duration_ms, jitter, anomalies) ==
  IF ~d.is_active \/ d.battery.depleted
  THEN [device |-> [d EXCEPT !.is_active = FALSE], result |-> get_inactive_state(d)]
  ELSE active_tick(d, duration_ms, jitter, anomalies)

\* payload_bytes / (max_bandwidth_kbps * 1000 / 8), in ms
tx_duration_ms(payload_bytes) ==
  IF max_bandwidth_kbps * 125 > 0
  THEN (payload_bytes * 1000) \div (max_bandwidth_kbps * 125)
  ELSE 1000

\* a transmit_data that charges the battery only for a delivered packet
active_transmit_charge_on_success(d, payload_bytes, packet_lost) ==
  LET cpu1 == schedule_task(d.cpu, "transmission")
      t == transmit(d.network, payload_bytes, packet_lost)
      battery1 == IF t.result.success
                  THEN consume(d.battery, "transmission", tx_duration_ms(payload_bytes))
                  ELSE d.battery
      memory1 == IF t.result.success THEN free_sensor_buffers(d.memory, <<>>)
                 ELSE d.memory
  IN [device |-> [d EXCEPT !.cpu = cpu1, !.battery = battery1,
                           !.network = t.network, !.memory = memory1],
      result |-> t.result]

\* a transmit_data that frees the buffers whatever the outcome
active_transmit_free_always(d, payload_bytes, packet_lost) ==
  LET cpu1 == schedule_task(d.cpu, "transmission")
      battery1 == consume(d.battery, "transmission", tx_duration_ms(payload_bytes))
      t == transmit(d.network, payload_bytes, packet_lost)
  IN [device |-> [d EXCEPT !.cpu = cpu1, !.battery = battery1,
                           !.network = t.network,
                           !.memory = free_sensor_buffers(d.memory, <<>>)],
      result |-> t.result]

\* the body of transmit_data below its first test
active_transmit(d, payload_bytes, packet_lost) ==
  LET cpu1 == schedule_task(d.cpu, "transmission")
      battery1 == consume(d.battery, "transmission", tx_duration_ms(payload_bytes))
      t == transmit(d.network, payload_bytes, packet_lost)
      memory1 == IF t.result.success THEN free_sensor_buffers(d.memory, <<>>)
                 ELSE d.memory
  IN [device |-> [d EXCEPT !.cpu = cpu1, !.battery = battery1,
                           !.network = t.network, !.memory = memory1],
      result |-> t.result]

\* a transmit_data that does not look at is_active
transmit_data_unguarded(d, payload_bytes, packet_lost) ==
  active_transmit(d, payload_bytes, packet_lost)

transmit_data(d, payload_bytes, packet_lost) ==
  IF ~d.is_active
  THEN [device |-> d,
        result |-> [success |-> FALSE, bytes_sent |-> 0, packet_loss |-> FALSE,
                    congested |-> FALSE, reason |-> "device_inactive"]]
  ELSE active_transmit(d, payload_bytes, packet_lost)

\* ------------------------------------------------------- sync strategies
\* One record shape for the four strategies: current_interval is read by
\* AdaptiveSync only, last_synced_state (None or a value) by DeltaSync and
\* EventDrivenSync only.
Strategy_init(name) ==
  [name |-> name,
   last_sync_tick |-> 0,
   current_interval |-> IF name = "adaptive" THEN high_battery_interval_s
                        ELSE full_state_interval_s,
   last_synced_state |-> <<>>]

\* AdaptiveSync._update_interval; battery_pct in the unit of percentage
update_interval(st, battery_pct) ==
  [st EXCEPT !.current_interval =
     IF battery_pct > high_battery_threshold THEN high_battery_interval_s
     ELSE IF battery_pct > low_battery_threshold THEN medium_battery_interval_s
     ELSE low_battery_interval_s]

\* ---- DeltaSync
\* The numeric leaves of a snapshot, keyed by their path (the dotted key of
\* _flatten, as a tuple).  The leaves of a reading are the ones the reading
\* carries among temperature, humidity and light; its anomalies list is no
\* number.  bool is an int to isinstance: is_active and battery.depleted are
\* leaves, valued 0 or 1.
SectionKeys(state, section) == {<<section, k>> : k \in DOMAIN state[section]}

ReadingKeys(state) ==
  IF state.sensors.last_reading = <<>> THEN {}
  ELSE {<<"sensors", "last_reading", k>> :
          k \in DOMAIN state.sensors.last_reading[1] \ {"anomalies"}}

LeafPaths(state) ==
  SectionKeys(state, "cpu") \cup SectionKeys(state, "memory")
    \cup SectionKeys(state, "battery") \cup SectionKeys(state, "network")
    \cup {<<"sensors", "total_readings">>, <<"sensors", "anomaly_count">>}
    \cup ReadingKeys(state) \cup {<<"is_active">>, <<"tick">>}

Bool01(b) == IF b THEN 1 ELSE 0

extract_numerics(state) ==
  [p \in LeafPaths(state) |->
     IF p = <<"tick">> THEN state.tick
     ELSE IF p = <<"is_active">> THEN Bool01(state.is_active)
     ELSE IF p = <<"battery", "depleted">> THEN Bool01(state.battery.depleted)
     ELSE IF Len(p) = 3 THEN state.sensors.last_reading[1][p[3]]
     ELSE state[p[1]][p[2]]]

\* a comparison of the absolute change with the threshold
changed_significantly_absolute(old, new) ==
  IF old = 0 THEN new # 0 ELSE Abs(new - old) * 100 > delta_threshold

\* abs(new - old) / abs(old) > delta_threshold
changed_significantly(old, new) ==
  IF old = 0 THEN new # 0 ELSE Abs(new - old) * 100 > delta_threshold * Abs(old)

\* a prepare_payload that takes last_sync_tick = 0 for "nothing sent yet"
DeltaSync_prepare_payload_by_tick(st, state) ==
  LET current == extract_numerics(state)
      prev == IF st.last_synced_state = <<>> THEN current ELSE st.last_synced_state[1]
      changed == {key \in DOMAIN current :
                    \/ key \notin DOMAIN prev
                    \/ changed_significantly(prev[key], current[key])}
      st1 == [st EXCEPT !.last_synced_state = <<current>>, !.last_sync_tick = state.tick]
  IN IF st.last_sync_tick = 0
     THEN [strategy |-> st1, payload |-> [type |-> "full_state", data |-> state]]
     ELSE [strategy |-> st1,
           payload |-> [type |-> "delta",
                        data |-> [key \in changed |-> current[key]],
                        fields_changed |-> Cardinality(changed),
                        fields_total |-> Cardinality(DOMAIN current)]]

DeltaSync_prepare_payload(st, state) ==
  LET current == extract_numerics(state)
      changed == {key \in DOMAIN current :
                    \/ key \notin DOMAIN st.last_synced_state[1]
                    \/ changed_significantly(st.last_synced_state[1][key], current[key])}
      st1 == [st EXCEPT !.last_synced_state = <<current>>, !.last_sync_tick = state.tick]
  IN IF st.last_synced_state = <<>>
     THEN [strategy |-> st1, payload |-> [type |-> "full_state", data |-> state]]
     ELSE [strategy |-> st1,
           payload |-> [type |-> "delta",
                        data |-> [key \in changed |-> current[key]],
                        fields_changed |-> Cardinality(changed),
                        fields_total |-> Cardinality(DOMAIN current)]]

\* ---- EventDrivenSync
max_silent_interval == full_state_interval_s * 6

\* a detection that watches the CPU only
detect_significant_change_cpu_only(st, current_state) ==
  \/ st.last_synced_state = <<>>
  \/ Abs(current_state.cpu.utilization - st.last_synced_state[1].cpu.utilization)
       > event_change_threshold

\* battery.percentage is in hundredths of a percent, the three utilizations
\* in 1/One: the threshold is the same number, 0.05, for all four
detect_significant_change(st, current_state) ==
  \/ st.last_synced_state = <<>>
  \/ LET old == st.last_synced_state[1]
     IN \/ Abs(current_state.cpu.utilization - old.cpu.utilization)
             > event_change_threshold
        \/ Abs(current_state.memory.utilization - old.memory.utilization)
             > event_change_threshold
        \/ Abs(current_state.battery.percentage - old.battery.percentage) * (One \div 100)
             > event_change_threshold
        \/ Abs(current_state.network.bandwidth_utilization
                 - old.network.bandwidth_utilization) > event_change_threshold

\* a should_sync without the heartbeat
EventDrivenSync_should_sync_no_heartbeat(st, t, state) ==
  \/ st.last_synced_state = <<>>
  \/ detect_significant_change(st, state)

EventDrivenSync_should_sync(st, t, state) ==
  \/ (t - st.last_sync_tick) >= max_silent_interval
  \/ st.last_synced_state = <<>>
  \/ detect_significant_change(st, state)

EventDrivenSync_prepare_payload(st, state) ==
  [strategy |-> [st EXCEPT !.last_synced_state =
                             <<[cpu |-> state.cpu, memory |-> state.memory,
                                battery |-> state.battery, network |-> state.network]>>,
                           !.last_sync_tick = state.tick],
   payload |-> [type |-> "event_driven", data |-> state]]

\* ---- FullStateSync
\* a prepare_payload that forgets to move last_sync_tick
FullStateSync_prepare_payload_stale(st, state) ==
  [strategy |-> st, payload |-> [type |-> "full_state", data |-> state]]

FullStateSync_prepare_payload(st, state) ==
  [strategy |-> [st EXCEPT !.last_sync_tick = state.tick],
   payload |-> [type |-> "full_state", data |-> state]]

\* ---- AdaptiveSync
AdaptiveSync_prepare_payload(st, state) ==
  [strategy |-> [st EXCEPT !.last_sync_tick = state.tick],
   payload |-> [type |-> "adaptive", interval_used |-> st.current_interval,
                data |-> state]]

\* should_sync of the strategy: the strategy afterwards and the answer
Strategy_should_sync(st, t, state, battery_pct) ==
  IF st.name = "adaptive"
  THEN LET st1 == update_interval(st, battery_pct)
       IN [strategy |-> st1, sync |-> (t - st1.last_sync_tick) >= st1.current_interval]
  ELSE IF st.name = "event_driven"
  THEN [strategy |-> st, sync |-> EventDrivenSync_should_sync(st, t, state)]
  ELSE [strategy |-> st, sync |-> (t - st.last_sync_tick) >= full_state_interval_s]

\* prepare_payload of the strategy: the strategy afterwards and the payload
Strategy_prepare_payload(st, state) ==
  IF st.name = "delta" THEN DeltaSync_prepare_payload(st, state)
  ELSE IF st.name = "event_driven" THEN EventDrivenSync_prepare_payload(st, state)
  ELSE IF st.name = "adaptive" THEN AdaptiveSync_prepare_payload(st, state)
  ELSE FullStateSync_prepare_payload(st, state)

\* ------------------------------------------------------------ SyncEngine
\* the keys of STRATEGY_MAP
STRATEGY_MAP == {"full_state", "delta", "event_driven", "adaptive"}

\* the engine once __init__ has run to its end
SyncEngine_init(name) ==
  [strategy_name |-> name,
   strategy |-> Strategy_init(name),
   total_syncs |-> 0,
   total_bytes_synced |-> 0,
   sync_events |-> <<>>]

\* a constructor that falls back to full_state for a name it does not know
SyncEngine_new_fallback(name) ==
  IF name \notin STRATEGY_MAP
  THEN [raised |-> "", self |-> SyncEngine_init("full_state")]
  ELSE [raised |-> "", self |-> SyncEngine_init(name)]

\* SyncEngine(config, name): the exception raised ("" for none) and the
\* attributes self has when __init__ is left
SyncEngine_new(name) ==
  IF name \notin STRATEGY_MAP
  THEN [raised |-> "ValueError", self |-> [strategy_name |-> name]]
  ELSE [raised |-> "", self |-> SyncEngine_init(name)]

\* a record_sync that books the bytes of a failed sync too
record_sync_all_bytes(e, t, size_bytes, success) ==
  [e EXCEPT !.total_syncs = @ + 1,
            !.total_bytes_synced = @ + size_bytes,
            !.sync_events = Append(@, [tick |-> t, size_bytes |-> size_bytes,
                                       success |-> success,
                                       strategy |-> e.strategy_name])]

record_sync(e, t, size_bytes, success) ==
  [e EXCEPT !.total_syncs = @ + 1,
            !.total_bytes_synced = IF success THEN @ + size_bytes ELSE @,
            !.sync_events = Append(@, [tick |-> t, size_bytes |-> size_bytes,
                                       success |-> success,
                                       strategy |-> e.strategy_name])]

\* ----------------------------------------------------------- DigitalTwin
DigitalTwin_init ==
  [device_state |-> <<>>,
   predicted_state |-> <<>>,
   state_history |-> <<>>,
   drift_history |-> <<>>,
   total_syncs |-> 0,
   last_sync_tick |-> 0,
   sync_success_count |-> 0,
   sync_fail_count |-> 0,
   accuracy_history |-> <<>>,
   current_drift |-> 0]

RECURSIVE SumSeq(_)
SumSeq(q) == IF q = <<>> THEN 0 ELSE Head(q) + SumSeq(Tail(q))

\* a drift that divides the battery difference by nothing
calculate_drift_raw(predicted, actual) ==
  LET bat == IF predicted.battery.remaining_mah # 0 /\ actual.battery.remaining_mah # 0
             THEN <<Abs(predicted.battery.remaining_mah - actual.battery.remaining_mah) * One>>
             ELSE <<>>
      cpu_d == <<Abs(predicted.cpu.utilization - actual.cpu.utilization)>>
      diffs == bat \o cpu_d
  IN SumSeq(diffs) \div Len(diffs)

\* _calculate_drift: the mean of the normalised differences, to 1e-5
calculate_drift(predicted, actual) ==
  LET bat == IF predicted.battery.remaining_mah # 0 /\ actual.battery.remaining_mah # 0
             THEN <<(Abs(predicted.battery.remaining_mah - actual.battery.remaining_mah)
                     * One) \div actual.battery.capacity_mah>>
             ELSE <<>>
      mem == IF predicted.memory.total_kb # 0 /\ actual.memory.total_kb # 0
             THEN <<(Abs(predicted.memory.used_kb - actual.memory.used_kb) * One)
                    \div actual.memory.total_kb>>
             ELSE <<>>
      cpu_d == <<Abs(predicted.cpu.utilization - actual.cpu.utilization)>>
      diffs == bat \o mem \o cpu_d
  IN IF diffs = <<>> THEN 0 ELSE SumSeq(diffs) \div Len(diffs)

\* a receive_sync that records the drift it had instead of measuring it
receive_sync_stale_drift(t, state, at) ==
  LET drift == t.current_drift
  IN [t EXCEPT !.current_drift = drift,
               !.device_state = <<state>>,
               !.predicted_state = <<state>>,
               !.last_sync_tick = at,
               !.total_syncs = @ + 1,
               !.sync_success_count = @ + 1,
               !.accuracy_history = Append(@, One - drift),
               !.drift_history = Append(@, drift),
               !.state_history = Append(@, [tick |-> at, state |-> state, drift |-> drift])]

\* a receive_sync that measures the drift against the state received last
receive_sync_against_received(t, state, at) ==
  LET drift == IF t.device_state # <<>>
               THEN calculate_drift(t.device_state[1], state)
               ELSE 0
  IN [t EXCEPT !.current_drift = drift,
               !.device_state = <<state>>,
               !.predicted_state = <<state>>,
               !.last_sync_tick = at,
               !.total_syncs = @ + 1,
               !.sync_success_count = @ + 1,
               !.accuracy_history = Append(@, One - drift),
               !.drift_history = Append(@, drift),
               !.state_history = Append(@, [tick |-> at, state |-> state, drift |-> drift])]

\* a receive_sync that leaves last_sync_tick as it was
receive_sync_keeps_tick(t, state, at) ==
  LET drift == IF t.predicted_state # <<>>
               THEN calculate_drift(t.predicted_state[1], state)
               ELSE 0
  IN [t EXCEPT !.current_drift = drift,
               !.device_state = <<state>>,
               !.predicted_state = <<state>>,
               !.total_syncs = @ + 1,
               !.sync_success_count = @ + 1,
               !.accuracy_history = Append(@, One - drift),
               !.drift_history = Append(@, drift),
               !.state_history = Append(@, [tick |-> at, state |-> state, drift |-> drift])]

receive_sync(t, state, at) ==
  LET drift == IF t.predicted_state # <<>>
               THEN calculate_drift(t.predicted_state[1], state)
               ELSE 0
  IN [t EXCEPT !.current_drift = drift,
               !.device_state = <<state>>,
               !.predicted_state = <<state>>,
               !.last_sync_tick = at,
               !.total_syncs = @ + 1,
               !.sync_success_count = @ + 1,
               !.accuracy_history = Append(@, One - drift),
               !.drift_history = Append(@, drift),
               !.state_history = Append(@, [tick |-> at, state |-> state, drift |-> drift])]

\* a record_sync_failure that counts the failure but not the attempt
record_sync_failure_uncounted(t, at) ==
  [t EXCEPT !.sync_fail_count = @ + 1]

record_sync_failure(t, at) ==
  [t EXCEPT !.sync_fail_count = @ + 1, !.total_syncs = @ + 1]

\* the battery the twin predicts at current_tick
extrapolate(t, bat, current_tick) ==
  IF bat.remaining_mah > 0 /\ t.last_sync_tick > 0
  THEN [bat EXCEPT !.remaining_mah =
          Max(0, @ - (bat.total_consumed_mah * (current_tick - t.last_sync_tick))
                     \div Max(t.last_sync_tick, 1))]
  ELSE bat

\* a tick whose drift grows without the cap at 1
DigitalTwin_tick_unclamped(t, current_tick) ==
  IF t.predicted_state = <<>> THEN t
  ELSE
    LET drift == (current_tick - t.last_sync_tick) * 50
        p == t.predicted_state[1]
    IN [t EXCEPT !.current_drift = drift,
                 !.predicted_state = <<[p EXCEPT !.battery = extrapolate(t, @, current_tick)]>>,
                 !.accuracy_history = Append(@, Max(0, One - drift)),
                 !.drift_history = Append(@, drift)]

DigitalTwin_tick(t, current_tick) ==
  IF t.predicted_state = <<>> THEN t
  ELSE
    LET drift == Min(One, (current_tick - t.last_sync_tick) * 50)
        p == t.predicted_state[1]
    IN [t EXCEPT !.current_drift = drift,
                 !.predicted_state = <<[p EXCEPT !.battery = extrapolate(t, @, current_tick)]>>,
                 !.accuracy_history = Append(@, Max(0, One - drift)),
                 !.drift_history = Append(@, drift)]

\* get_state, without the averages and maxima of the histories that no step
\* of the loop reads
DigitalTwin_get_state(t) ==
  [device_state |-> t.device_state,
   current_drift |-> RoundTo(t.current_drift, 10),
   total_syncs |-> t.total_syncs,
   last_sync_tick |-> t.last_sync_tick]

\* --------------------------------------------------------- FaultDetector
FaultDetector_init ==
  [cpu_high_ticks |-> 0,
   cpu_warning_ticks |-> 0,
   alerts |-> <<>>,
   critical_count |-> 0,
   warning_count |-> 0,
   faults_detected |-> <<>>]

\* The alert _create_alert returns: time and icon are functions of tick and
\* severity; message is the text of the rule without the figures formatted
\* into it (for a sensor anomaly it names the sensor).
create_alert(t, severity, component, message) ==
  [tick |-> t, severity |-> severity, component |-> component, message |-> message]

\* [f["type"] for f in self.faults_detected]
FaultTypes(faults) == {faults[i].type : i \in DOMAIN faults}

\* a log that takes an entry on every observation
add_fault_always(faults, type, t) == Append(faults, [type |-> type, tick |-> t])

\* if type not in [...]: self.faults_detected.append({"type": type, "tick": tick})
add_fault(faults, type, t) ==
  IF type \in FaultTypes(faults) THEN faults
  ELSE Append(faults, [type |-> type, tick |-> t])

RECURSIVE sensor_faults(_, _, _)
\* the faults logged by the loop over last_reading["anomalies"]
sensor_faults(faults, anomalies, t) ==
  IF anomalies = <<>> THEN faults
  ELSE sensor_faults(add_fault(faults, "sensor_" \o Head(anomalies), t), Tail(anomalies), t)

\* how many alerts of a list have the severity
CountSeverity(alerts, severity) ==
  Cardinality({i \in DOMAIN alerts : alerts[i].severity = severity})

\* check: the detector afterwards and the alerts of this tick.  twin_state is
\* <<>> for None.
FaultDetector_check(fd, t, state, twin_state, last_sync_tick, expected_sync_interval, is_sensing_tick) ==
  LET cpu_util == state.cpu.utilization
      is_critical == cpu_util > cpu_critical_threshold
      is_warning == ~is_critical /\ cpu_util > cpu_warning_threshold
      cpu_high_ticks == IF is_critical THEN fd.cpu_high_ticks + 1
                        ELSE IF is_warning THEN fd.cpu_high_ticks ELSE 0
      cpu_warning_ticks == IF is_critical THEN fd.cpu_warning_ticks
                           ELSE IF is_warning THEN fd.cpu_warning_ticks + 1 ELSE 0
      cpu_alerts ==
        IF is_critical /\ cpu_high_ticks >= cpu_critical_duration_s
        THEN <<create_alert(t, "CRITICAL", "CPU", "CPU utilization critical")>>
        ELSE IF is_warning /\ cpu_warning_ticks >= cpu_warning_duration_s
        THEN <<create_alert(t, "WARNING", "CPU", "CPU utilization high")>>
        ELSE <<>>
      mem_util == state.memory.utilization
      mem_alerts ==
        IF mem_util > memory_critical_threshold
        THEN <<create_alert(t, "CRITICAL", "MEMORY", "Memory near OOM")>>
        ELSE IF mem_util > memory_warning_threshold
        THEN <<create_alert(t, "WARNING", "MEMORY", "Memory usage")>>
        ELSE <<>>
      faults1 == IF mem_util > memory_critical_threshold
                 THEN add_fault(fd.faults_detected, "memory_oom", t)
                 ELSE fd.faults_detected
      \* leaked > 1.0, in 0.001 KB
      new_leak == state.memory.leaked_kb > 1000 /\ "memory_leak" \notin FaultTypes(faults1)
      leak_alerts == IF new_leak
                     THEN <<create_alert(t, "FAULT", "MEMORY", "Memory leak detected")>>
                     ELSE <<>>
      faults2 == IF new_leak THEN Append(faults1, [type |-> "memory_leak", tick |-> t])
                 ELSE faults1
      bat_pct == state.battery.percentage
      bat_alerts ==
        (IF bat_pct < battery_critical_threshold
         THEN <<create_alert(t, "CRITICAL", "BATTERY", "Battery critically low")>>
         ELSE IF bat_pct < battery_warning_threshold
         THEN <<create_alert(t, "WARNING", "BATTERY", "Battery low")>>
         ELSE <<>>)
        \o (IF state.battery.depleted
            THEN <<create_alert(t, "CRITICAL", "BATTERY", "Battery depleted")>>
            ELSE <<>>)
      net_alerts ==
        (IF state.network.packet_loss_rate > packet_loss_critical_threshold
         THEN <<create_alert(t, "CRITICAL", "NETWORK", "Packet loss rate")>>
         ELSE <<>>)
        \o (IF state.network.bandwidth_utilization > bandwidth_warning_threshold
            THEN <<create_alert(t, "WARNING", "NETWORK", "Bandwidth utilization")>>
            ELSE <<>>)
      timed_out == (t - last_sync_tick > expected_sync_interval * communication_timeout_multiplier)
                     /\ last_sync_tick > 0
      comm_alerts == IF timed_out
                     THEN <<create_alert(t, "FAULT", "COMMUNICATION", "No sync")>>
                     ELSE <<>>
      faults3 == IF timed_out THEN add_fault(faults2, "comm_timeout", t) ELSE faults2
      anomalies == IF is_sensing_tick /\ state.sensors.last_reading # <<>>
                   THEN state.sensors.last_reading[1].anomalies
                   ELSE <<>>
      sensor_alerts == [i \in DOMAIN anomalies |->
                          create_alert(t, "FAULT", "SENSOR", anomalies[i])]
      faults4 == sensor_faults(faults3, anomalies, t)
      twin_alerts ==
        IF twin_state # <<>> /\ twin_state[1].current_drift > state_drift_warning_threshold
        THEN <<create_alert(t, "WARNING", "TWIN", "Digital Twin state drift")>>
        ELSE <<>>
      new_alerts == cpu_alerts \o mem_alerts \o leak_alerts \o bat_alerts \o net_alerts
                      \o comm_alerts \o sensor_alerts \o twin_alerts
  IN [detector |-> [cpu_high_ticks |-> cpu_high_ticks,
                    cpu_warning_ticks |-> cpu_warning_ticks,
                    alerts |-> fd.alerts \o new_alerts,
                    critical_count |-> fd.critical_count + CountSeverity(new_alerts, "CRITICAL"),
                    warning_count |-> fd.warning_count + CountSeverity(new_alerts, "WARNING"),
                    faults_detected |-> faults4],
      new_alerts |-> new_alerts]

\* ------------------------------------------- alert deduplication (_run_loop)
\* f"{alert['component']}_{alert['severity']}"
AlertKey(alert) == alert.component \o "_" \o alert.severity

RECURSIVE deduplicate_no_window(_, _, _, _)
\* a deduplication that lets an alert through whenever the tick has moved on
deduplicate_no_window(raw_alerts, t, last_ticks, new_alerts) ==
  IF raw_alerts = <<>>
  THEN [last_alert_ticks |-> last_ticks, new_alerts |-> new_alerts]
  ELSE
    LET alert == Head(raw_alerts)
        key == AlertKey(alert)
    IN IF key \notin DOMAIN last_ticks \/ t - last_ticks[key] >= 1
       THEN deduplicate_no_window(Tail(raw_alerts), t,
                                  [k \in DOMAIN last_ticks \cup {key} |->
                                     IF k = key THEN t ELSE last_ticks[k]],
                                  Append(new_alerts, alert))
       ELSE deduplicate_no_window(Tail(raw_alerts), t, last_ticks, new_alerts)

RECURSIVE deduplicate(_, _, _, _)
\* main.py 192-196: the loop over raw_alerts; last_alert_ticks afterwards
\* and the alerts let through
deduplicate(raw_alerts, t, last_ticks, new_alerts) ==
  IF raw_alerts = <<>>
  THEN [last_alert_ticks |-> last_ticks, new_alerts |-> new_alerts]
  ELSE
    LET alert == Head(raw_alerts)
        key == AlertKey(alert)
    IN IF key \notin DOMAIN last_ticks
            \/ t - last_ticks[key] >= alert_dedup_window
       THEN deduplicate(Tail(raw_alerts), t,
                        [k \in DOMAIN last_ticks \cup {key} |->
                           IF k = key THEN t ELSE last_ticks[k]],
                        Append(new_alerts, alert))
       ELSE deduplicate(Tail(raw_alerts), t, last_ticks, new_alerts)

\* ======================================================================
\* PredictiveMaintenance (analysis/predictive_maintenance.py)
\* ======================================================================
\* Samples are [tick, value]; the values keep the units of the snapshot.
\* An ETA is float("inf") or a number: eta_hours in 0.01 h, eta_ticks in
\* ticks.
inf == [inf |-> TRUE, value |-> 0]
Finite(v) == [inf |-> FALSE, value |-> v]

PredictiveMaintenance_init == [battery_history |-> <<>>, memory_history |-> <<>>]

\* history[-count:]
LastSamples(history, count) ==
  IF Len(history) > count
  THEN SubSeq(history, Len(history) - count + 1, Len(history))
  ELSE history

\* update(tick, device_state): one sample on each history, each trimmed to
\* its last 2 * prediction_window samples
PredictiveMaintenance_update(p, t, state) ==
  [battery_history |->
     LastSamples(Append(p.battery_history,
                        [tick |-> t, value |-> state.battery.remaining_mah]),
                 2 * prediction_window),
   memory_history |->
     LastSamples(Append(p.memory_history, [tick |-> t, value |-> state.memory.used_kb]),
                 2 * prediction_window)]

RECURSIVE GCD(_, _)
GCD(a, b) == IF b = 0 THEN a ELSE GCD(b, a % b)

RECURSIVE MulDiv(_, _, _)
\* a * b = q * c + r with 0 <= r < c, for a, b >= 0 and c > 0, without
\* forming the product
MulDiv(a, b, c) ==
  IF b = 0 THEN [q |-> 0, r |-> 0]
  ELSE LET h == MulDiv(a, b \div 2, c)
           odd == b % 2 = 1
           r2 == 2 * h.r + (IF odd THEN a % c ELSE 0)
       IN [q |-> 2 * h.q + (IF odd THEN a \div c ELSE 0) + r2 \div c,
           r |-> r2 % c]

\* np.polyfit(ticks, values, 1) as exact least squares.  Ticks are counted
\* from the last tick of the window and values from its last value, which
\* leaves the fitted line where it is; the slope is sxy / sxx in lowest
\* terms (sxx > 0 when two ticks differ), and the line runs through the
\* mean: st / n ticks from the last tick, value sum_values / n.
polyfit(window) ==
  LET n == Len(window)
      t0 == window[n].tick
      y0 == window[n].value
      st == SumSeq([i \in 1..n |-> window[i].tick - t0])
      sy == SumSeq([i \in 1..n |-> window[i].value - y0])
      stt == SumSeq([i \in 1..n |-> (window[i].tick - t0) * (window[i].tick - t0)])
      sty == SumSeq([i \in 1..n |-> (window[i].tick - t0) * (window[i].value - y0)])
      sxx == n * stt - st * st
      sxy == n * sty - st * sy
      g == GCD(Abs(sxx), Abs(sxy))
  IN [n |-> n, st |-> st, sum_values |-> n * y0 + sy,
      sxx |-> IF g = 0 THEN 0 ELSE sxx \div g,
      sxy |-> IF g = 0 THEN 0 ELSE sxy \div g]

\* max(0, crossing_tick - current_tick) in whole ticks, for a fit of slope
\* other than 0: the line reaches the target (target - mean value) / slope
\* ticks after the mean tick.  The floor of the exact quotient: what
\* int(remaining_ticks) gives when the floats carry no error.
remaining_ticks(fit, target) ==
  LET gap == fit.n * target - fit.sum_values
      to_cross == MulDiv(Abs(gap), fit.sxx, fit.n * Abs(fit.sxy))
  IN IF (gap < 0) # (fit.sxy < 0) /\ gap # 0 THEN 0
     ELSE Max(0, to_cross.q + (to_cross.r \div Abs(fit.sxy) + fit.st) \div fit.n)

\* round(remaining_ticks / 3600.0, 2), from the whole ticks; where the
\* quotient lies halfway between two hundredths the float decides, and the
\* model takes the even one
eta_hours_of(ticks) == RoundDiv(ticks, 36)

\* a predictor that fits whatever samples it has
predict_battery_depletion_unguarded(p) ==
  LET no_eta == [eta_hours |-> inf, eta_ticks |-> inf, confidence |-> "low",
                 drain_rate_mah_per_hour |-> 0]
      window == LastSamples(p.battery_history, prediction_window)
      fit == polyfit(window)
      ticks == remaining_ticks(fit, 0)
  IN IF Len(window) < 2 THEN no_eta
     ELSE IF fit.sxy >= 0 THEN no_eta
     ELSE [eta_hours |-> Finite(eta_hours_of(ticks)), eta_ticks |-> Finite(ticks)]

\* predict_battery_depletion.  Of a finite prediction the ETA is modelled;
\* its rate, r_squared and confidence are functions of the same fit and are
\* left out.
predict_battery_depletion(p) ==
  LET no_eta == [eta_hours |-> inf, eta_ticks |-> inf, confidence |-> "low",
                 drain_rate_mah_per_hour |-> 0]
      window == LastSamples(p.battery_history, prediction_window)
      fit == polyfit(window)
      ticks == remaining_ticks(fit, 0)
  IN IF Len(p.battery_history) < min_history THEN no_eta
     ELSE IF Len(window) < 2 THEN no_eta
     ELSE IF fit.sxy >= 0 THEN no_eta
     ELSE [eta_hours |-> Finite(eta_hours_of(ticks)), eta_ticks |-> Finite(ticks)]

\* predict_memory_exhaustion, modelled as predict_battery_depletion is
predict_memory_exhaustion(p) ==
  LET no_eta == [eta_hours |-> inf, eta_ticks |-> inf, confidence |-> "low",
                 leak_rate_kb_per_hour |-> 0]
      window == LastSamples(p.memory_history, prediction_window)
      fit == polyfit(window)
      ticks == remaining_ticks(fit, total_ram_kb)
  IN IF Len(p.memory_history) < min_history THEN no_eta
     ELSE IF Len(window) < 2 THEN no_eta
     ELSE IF fit.sxy <= 0 THEN no_eta
     ELSE [eta_hours |-> Finite(eta_hours_of(ticks)), eta_ticks |-> Finite(ticks)]

\* get_maintenance_recommendation; eta_hours None is <<>>
get_maintenance_recommendation(p) ==
  LET bat_pred == predict_battery_depletion(p)
      mem_pred == predict_memory_exhaustion(p)
      hours(pred) == IF pred.eta_hours.inf THEN no_eta_hours ELSE pred.eta_hours.value
      earliest_hours == Min(hours(bat_pred), hours(mem_pred))
  IN IF earliest_hours >= no_eta_hours
     THEN [recommended |-> FALSE, eta_hours |-> <<>>]
     ELSE [recommended |-> TRUE,
           maintenance_in_hours |-> RoundDiv(earliest_hours * 7, 10),
           reason_battery_eta |-> bat_pred.eta_hours,
           reason_memory_eta |-> mem_pred.eta_hours]

\* ======================================================================
\* EdgeProcessor, SimulationLogger and numpy's generator
\* ======================================================================
\* ---- PriorityDataQueue (edge/priority_queue.py)
PriorityDataQueue_init ==
  [critical_queue |-> <<>>, normal_queue |-> <<>>, total_critical |-> 0, total_normal |-> 0]

enqueue(q, data, priority) ==
  IF priority = "critical"
  THEN [q EXCEPT !.critical_queue = Append(@, data), !.total_critical = @ + 1]
  ELSE [q EXCEPT !.normal_queue = Append(@, data), !.total_normal = @ + 1]

\* dequeue_critical: the queue afterwards and the items returned
dequeue_critical(q) ==
  [queue |-> [q EXCEPT !.critical_queue = <<>>], items |-> q.critical_queue]

\* dequeue_normal(batch_size)
dequeue_normal(q, batch_size) ==
  LET count == Min(batch_size, Len(q.normal_queue))
  IN [queue |-> [q EXCEPT !.normal_queue = SubSeq(@, count + 1, Len(@))],
      items |-> SubSeq(q.normal_queue, 1, count)]

\* ---- EdgeProcessor (edge/edge_processor.py).  A reading of the model is
\* its anomalies list, so the moving average of the filter and the byte
\* counts of the compressor, which read the values only, are left out.
EdgeProcessor_init ==
  [priority_queue |-> PriorityDataQueue_init,
   total_processed |-> 0,
   anomalies_fast_tracked |-> 0]

\* _check_critical_resources: 0.95 of the CPU or of the memory, or a
\* battery below 5 %
check_critical_resources(state) ==
  \/ state.cpu.utilization > 95000
  \/ state.memory.utilization > 95000
  \/ state.battery.percentage < 500

\* process(sensor_reading, device_state)
EdgeProcessor_process(e, sensor_reading, state) ==
  IF ~edge_enabled THEN e
  ELSE LET has_anomaly == sensor_reading.anomalies # <<>>
           priority == IF has_anomaly \/ check_critical_resources(state)
                       THEN "critical" ELSE "normal"
       IN [e EXCEPT !.total_processed = @ + 1,
                    !.anomalies_fast_tracked = IF has_anomaly THEN @ + 1 ELSE @,
                    !.priority_queue = enqueue(@, sensor_reading, priority)]

\* ---- SimulationLogger (utils/logger.py)
\* now: datetime.now(), which names the file
SimulationLogger_init(now) == [tick_data |-> <<>>, filename_base |-> now]

\* a log_tick that stamps the record with the time the logger was made
log_tick_stamped(l, t, state, twin_state, alerts, sync_event) ==
  [l EXCEPT !.tick_data =
     Append(@, [tick |-> t,
                timestamp_s |-> l.filename_base + t,
                device |-> [cpu_utilization |-> state.cpu.utilization,
                            memory_used_kb |-> state.memory.used_kb,
                            memory_total_kb |-> state.memory.total_kb,
                            battery_remaining_mah |-> state.battery.remaining_mah,
                            battery_percent |-> state.battery.percentage,
                            sensors |-> state.sensors.last_reading,
                            network |->
                              [bytes_sent |-> state.network.total_bytes_sent,
                               bandwidth_utilization |-> state.network.bandwidth_utilization,
                               packet_loss_rate |-> state.network.packet_loss_rate]],
                twin |-> [state_accuracy |-> One - twin_state.current_drift,
                          state_drift |-> twin_state.current_drift,
                          last_sync_tick |-> twin_state.last_sync_tick],
                alerts |-> [i \in DOMAIN alerts |-> alerts[i].message],
                sync_event |-> sync_event])]

\* log_tick: time is a function of tick
log_tick(l, t, state, twin_state, alerts, sync_event) ==
  [l EXCEPT !.tick_data =
     Append(@, [tick |-> t,
                timestamp_s |-> t,
                device |-> [cpu_utilization |-> state.cpu.utilization,
                            memory_used_kb |-> state.memory.used_kb,
                            memory_total_kb |-> state.memory.total_kb,
                            battery_remaining_mah |-> state.battery.remaining_mah,
                            battery_percent |-> state.battery.percentage,
                            sensors |-> state.sensors.last_reading,
                            network |->
                              [bytes_sent |-> state.network.total_bytes_sent,
                               bandwidth_utilization |-> state.network.bandwidth_utilization,
                               packet_loss_rate |-> state.network.packet_loss_rate]],
                twin |-> [state_accuracy |-> One - twin_state.current_drift,
                          state_drift |-> twin_state.current_drift,
                          last_sync_tick |-> twin_state.last_sync_tick],
                alerts |-> [i \in DOMAIN alerts |-> alerts[i].message],
                sync_event |-> sync_event])]

\* ---- numpy's global generator: the seed it was given and how many draws
\* it has made since
np_random_seed(seed) == [seed |-> seed, draws |-> 0]

\* ---- the output of the runs made so far: for each run that has returned
\* what it put out tick by tick, and the same for the run in progress
NoRuns == [finished |-> <<>>, trace |-> <<>>]

\* ----------------------------------------------------- inputs of a run
\* config["sync"]["default_strategy"]
Strategies == STRATEGY_MAP
\* draws of the CPU jitter, np.random.normal(0, 0.02)
JitterDraws == {-2000, 2005}
\* outcomes of the anomaly draws of one reading
AnomalyDraws == {<<>>, <<"temperature">>}
\* len(json.dumps(payload)) of a sync payload: the text of a snapshot, by its length
PayloadSizes == {50, 250}

\* the components as run_simulation makes them, for a strategy of names and a
\* run of ticks iterations
InitSeeded(names, ticks, seeds) ==
  /\ \E name \in names, seed \in seeds :
       /\ config = [default_strategy |-> name, sampling_rate_seconds |-> sampling_rate_s,
                    total_ticks |-> ticks, random_seed |-> seed]
       /\ sync_engine = SyncEngine_init(name)
  /\ device = SensorNode_init
  /\ twin = DigitalTwin_init
  /\ pc = "device"
  /\ tick = 1
  /\ device_result = [tick |-> 0, is_active |-> TRUE, new_reading |-> <<>>,
                      is_sensing_tick |-> FALSE, battery_warnings |-> <<>>]
  /\ device_state = get_full_state(SensorNode_init)
  /\ warnings_fired = [t \in SeqToSet(warning_thresholds) |-> 0]
  /\ calls = 0
  /\ ret = [op |-> "init", val |-> <<>>, was_depleted |-> FALSE]
  /\ fault_detector = FaultDetector_init
  /\ last_alert_ticks = <<>>
  /\ live_output = <<>>
  /\ edge = EdgeProcessor_init
  /\ predictive = PredictiveMaintenance_init
  /\ logger = SimulationLogger_init(StartedAt)
  /\ np_random = np_random_seed(config.random_seed)
  /\ runs = NoRuns

InitOf(names, ticks) == InitSeeded(names, ticks, {random_seed})

InitWith(names) == InitOf(names, total_ticks)

\* ======================================================================
\* The simulation: run_simulation and _run_loop
\* ======================================================================
Init == InitWith(Strategies)

\* sensor_node.py 42-51: a tick that gets past the inactive test computes
\* tick_count % sampling_rate_s
TickDividesByZero ==
  device.is_active /\ ~device.battery.depleted /\ config.sampling_rate_seconds = 0

\* main.py 152-157 with the draws of the tick given: device.tick(time_step_s),
\* device.get_full_state(), and edge.process on a new reading
DeviceTickWith(jitter, anomalies) ==
  LET r == SensorNode_tick(device, time_step_ms, jitter, anomalies)
      state == get_full_state(r.device)
  IN /\ pc = "device"
     /\ ~TickDividesByZero
     /\ device' = r.device
     /\ device_result' = r.result
     /\ device_state' = state
     /\ edge' = IF r.result.new_reading # <<>>
                THEN EdgeProcessor_process(edge, r.result.new_reading[1], state)
                ELSE edge
     /\ warnings_fired' = Fired(r.result.battery_warnings)
     /\ ret' = [op |-> "tick", val |-> r.result, was_depleted |-> device.battery.depleted]
     /\ pc' = "sync"
     /\ UNCHANGED <<config, runs, predictive, logger, fault_detector,
                    last_alert_ticks, live_output,
                    twin, sync_engine, tick, calls>>

\* the draws of the tick are any the generator can make
DeviceTick ==
  \E jitter \in JitterDraws, anomalies \in AnomalyDraws :
    DeviceTickWith(jitter, anomalies) /\ UNCHANGED np_random

\* a sync step that puts the strategy back when the packet is lost, so
\* that the sync is tried again on the next tick
SyncAttemptWith_retry(size_bytes, packet_lost) ==
    LET s == Strategy_should_sync(sync_engine.strategy, tick, device_state,
                                  device_state.battery.percentage)
        p == Strategy_prepare_payload(s.strategy, device_state)
        tx == transmit_data(device, size_bytes, packet_lost)
        e == [sync_engine EXCEPT !.strategy = IF tx.result.success THEN p.strategy
                                               ELSE s.strategy]
    IN /\ pc = "sync"
       /\ s.sync
       /\ device' = tx.device
       /\ twin' = IF tx.result.success THEN receive_sync(twin, device_state, tick)
                  ELSE record_sync_failure(twin, tick)
       /\ sync_engine' = record_sync(e, tick, size_bytes, tx.result.success)
       /\ ret' = [op |-> "transmit_data", val |-> tx.result,
                  was_depleted |-> device.battery.depleted]
       /\ pc' = "end"
       /\ UNCHANGED <<config, runs, edge, predictive, logger, fault_detector,
                 last_alert_ticks, live_output,
                 tick, device_result, device_state, warnings_fired, calls>>

\* main.py 160-177 with the size of the payload and the packet-loss draw
\* given: a sync is due; the payload is prepared and transmitted
SyncAttemptWith(size_bytes, packet_lost) ==
    LET s == Strategy_should_sync(sync_engine.strategy, tick, device_state,
                                  device_state.battery.percentage)
        p == Strategy_prepare_payload(s.strategy, device_state)
        tx == transmit_data(device, size_bytes, packet_lost)
        e == [sync_engine EXCEPT !.strategy = p.strategy]
    IN /\ pc = "sync"
       /\ s.sync
       /\ device' = tx.device
       /\ twin' = IF tx.result.success THEN receive_sync(twin, device_state, tick)
                  ELSE record_sync_failure(twin, tick)
       /\ sync_engine' = record_sync(e, tick, size_bytes, tx.result.success)
       /\ ret' = [op |-> "transmit_data", val |-> tx.result,
                  was_depleted |-> device.battery.depleted]
       /\ pc' = "end"
       /\ UNCHANGED <<config, runs, edge, predictive, logger, fault_detector,
                 last_alert_ticks, live_output,
                 tick, device_result, device_state, warnings_fired, calls>>

SyncAttempt ==
  \E size_bytes \in PayloadSizes, packet_lost \in BOOLEAN :
    SyncAttemptWith(size_bytes, packet_lost) /\ UNCHANGED np_random

\* main.py 178-180: no sync is due; the twin extrapolates
NoSync ==
  LET s == Strategy_should_sync(sync_engine.strategy, tick, device_state,
                                device_state.battery.percentage)
  IN /\ pc = "sync"
     /\ ~s.sync
     /\ sync_engine' = [sync_engine EXCEPT !.strategy = s.strategy]
     /\ twin' = DigitalTwin_tick(twin, tick)
     /\ ret' = [op |-> "twin_tick", val |-> <<>>, was_depleted |-> device.battery.depleted]
     /\ pc' = "end"
     /\ UNCHANGED <<config, runs, edge, predictive, logger, np_random, fault_detector,
                 last_alert_ticks, live_output,
                 device, tick, device_result, device_state, warnings_fired, calls>>

\* main.py 161-172: sync_occurred of the iteration, from what the sync step
\* left in ret
sync_occurred == ret.op = "transmit_data" /\ ret.val.success

\* main.py 183-196, 202-209: the fault check on twin.get_state(), the
\* deduplication of its alerts, the tick log and the live output of the
\* alerts let through
CheckFaults ==
  LET twin_state == DigitalTwin_get_state(twin)
      c == FaultDetector_check(fault_detector, tick, device_state, <<twin_state>>,
                               twin_state.last_sync_tick, full_state_interval_s,
                               device_result.is_sensing_tick)
      d == deduplicate(c.new_alerts, tick, last_alert_ticks, <<>>)
  IN /\ fault_detector' = c.detector
     /\ last_alert_ticks' = d.last_alert_ticks
     /\ live_output' = live_output \o d.new_alerts
     /\ logger' = IF tick % Max(1, config.sampling_rate_seconds) = 0
                  THEN log_tick(logger, tick, device_state, twin_state, d.new_alerts,
                                sync_occurred)
                  ELSE logger

\* a loop that feeds the predictor on every tick
UpdatePredictions_every_tick ==
  predictive' = PredictiveMaintenance_update(predictive, tick, device_state)

\* main.py 198-200: the predictor is fed on every tenth tick
UpdatePredictions ==
  predictive' = IF tick % 10 = 0
                THEN PredictiveMaintenance_update(predictive, tick, device_state)
                ELSE predictive

\* main.py 150, 183-219: fault detection, the predictor, the tick log, then
\* break on an inactive device, else the next tick of the range
EndOfIterationStep ==
  /\ pc = "end"
  /\ CheckFaults
  /\ UpdatePredictions
  /\ IF ~device.is_active \/ tick >= config.total_ticks
     THEN pc' = "done" /\ tick' = tick
     ELSE pc' = "device" /\ tick' = tick + 1
  /\ UNCHANGED <<config, device, twin, sync_engine, device_result, device_state,
                 warnings_fired, calls, ret, edge, np_random>>

EndOfIteration == EndOfIterationStep /\ UNCHANGED runs

Next == DeviceTick \/ SyncAttempt \/ NoSync \/ EndOfIteration

Spec == Init /\ [][Next]_vars

\* a run of the full_state strategy over MaxRunTicks iterations
InitRun == InitOf({"full_state"}, MaxRunTicks)

SpecRun == InitRun /\ [][Next]_vars

\* ======================================================================
\* run_simulation called again with the same configuration (main.py 308-313),
\* every draw being the one numpy's generator makes for the seed
\* ======================================================================
\* config["simulation"]["random_seed"], as --seed may give it
Seeds == {random_seed, random_seed + 1, random_seed + 2}

\* The k-th number the generator puts out from where it stands: MT19937 is a
\* fixed function of the seed and of the number of draws made; this function
\* stands for it.
Draw(g, k) == (g.seed * 7 + (g.draws + k) * (g.draws + k + g.seed)) % 97

\* cpu_model.py 49: the jitter the draw gives
JitterOf(u) == IF u % 2 = 0 THEN -2000 ELSE 2005

\* sensor_data.py 67: np.random.random() < anomaly_probability
AnomaliesOf(u) == IF u % 5 = 0 THEN <<"temperature">> ELSE <<>>

\* network_model.py 47: np.random.random() < loss_rate
PacketLostOf(u) == u % 4 = 0

\* sync_engine.py 64-66: len(json.dumps(payload)), the length of a text that
\* the payload determines; a delta payload is the short one
size_bytes_of(payload) == IF payload.type = "delta" THEN 50 ELSE 250

\* the draws generate_reading makes: noise and anomaly test for temperature
\* and humidity, spike and sign for an anomaly, noise for light
ReadingDraws(anomalies) == 5 + 2 * Len(anomalies)

\* sensor_node.py 53-76: on a sensing tick the reading is drawn first, its
\* second draw being the temperature's anomaly test, and the CPU jitter after
\* it; an inactive device draws nothing
SeededDeviceTick ==
  LET active == device.is_active /\ ~device.battery.depleted
      sensing == active /\ (device.tick_count + 1) % config.sampling_rate_seconds = 0
      anomalies == IF sensing THEN AnomaliesOf(Draw(np_random, 2)) ELSE <<>>
      before_jitter == IF sensing THEN ReadingDraws(anomalies) ELSE 0
      jitter == JitterOf(Draw(np_random, before_jitter + 1))
  IN /\ DeviceTickWith(jitter, anomalies)
     /\ np_random' = [np_random EXCEPT !.draws =
                        IF active THEN @ + before_jitter + 1 ELSE @]

\* main.py 162-177: the size is the payload's, the packet is lost if the
\* generator says so; transmit_data of an inactive device draws nothing
SeededSyncAttempt ==
  LET s == Strategy_should_sync(sync_engine.strategy, tick, device_state,
                                device_state.battery.percentage)
      p == Strategy_prepare_payload(s.strategy, device_state)
  IN /\ SyncAttemptWith(size_bytes_of(p.payload), PacketLostOf(Draw(np_random, 1)))
     /\ np_random' = [np_random EXCEPT !.draws = IF device.is_active THEN @ + 1 ELSE @]

\* what the iteration leaves: the components and the tick log
TickOutput ==
  [device |-> device, twin |-> twin, sync_engine |-> sync_engine,
   fault_detector |-> fault_detector, edge |-> edge, predictive |-> predictive,
   tick_data |-> logger.tick_data]

SeededEndOfIteration ==
  /\ EndOfIterationStep
  /\ runs' = [runs EXCEPT !.trace = Append(@, TickOutput')]

\* main.py 85-94: the generator is seeded again and every component is made
\* anew; the wall clock has moved on
Rerun ==
  /\ pc = "done"
  /\ Len(runs.finished) + 1 < MaxRuns
  /\ runs' = [finished |-> Append(runs.finished, runs.trace), trace |-> <<>>]
  /\ np_random' = np_random_seed(config.random_seed)
  /\ device' = SensorNode_init
  /\ twin' = DigitalTwin_init
  /\ sync_engine' = SyncEngine_init(config.default_strategy)
  /\ edge' = EdgeProcessor_init
  /\ fault_detector' = FaultDetector_init
  /\ predictive' = PredictiveMaintenance_init
  /\ logger' = SimulationLogger_init(logger.filename_base + 1)
  /\ pc' = "device"
  /\ tick' = 1
  /\ device_result' = [tick |-> 0, is_active |-> TRUE, new_reading |-> <<>>,
                       is_sensing_tick |-> FALSE, battery_warnings |-> <<>>]
  /\ device_state' = get_full_state(SensorNode_init)
  /\ warnings_fired' = [t \in SeqToSet(warning_thresholds) |-> 0]
  /\ ret' = [op |-> "init", val |-> <<>>, was_depleted |-> FALSE]
  /\ last_alert_ticks' = <<>>
  /\ live_output' = <<>>
  /\ UNCHANGED <<config, calls>>

InitRerun == InitSeeded(Strategies, total_ticks, Seeds)

NextRerun ==
  SeededDeviceTick \/ SeededSyncAttempt \/ NoSync \/ SeededEndOfIteration \/ Rerun

SpecRerun == InitRerun /\ [][NextRerun]_vars

\* ======================================================================
\* run_simulation from its entry: the construction of the components, then
\* the loop
\* ======================================================================
\* config["sync"]["default_strategy"] and
\* config["simulation"]["sampling_rate_seconds"] as a configuration file may
\* give them
Configs ==
  [default_strategy : STRATEGY_MAP \cup {"nonexistent"},
   sampling_rate_seconds : {0, sampling_rate_s},
   total_ticks : {total_ticks},
   random_seed : {random_seed}]

\* no SyncEngine is bound yet
NoEngine == [strategy_name |-> ""]

InitStartup ==
  /\ config \in Configs
  /\ sync_engine = NoEngine
  /\ device = SensorNode_init
  /\ twin = DigitalTwin_init
  /\ pc = "construct"
  /\ tick = 1
  /\ device_result = [tick |-> 0, is_active |-> TRUE, new_reading |-> <<>>,
                      is_sensing_tick |-> FALSE, battery_warnings |-> <<>>]
  /\ device_state = get_full_state(SensorNode_init)
  /\ warnings_fired = [t \in SeqToSet(warning_thresholds) |-> 0]
  /\ calls = 0
  /\ ret = [op |-> "init", val |-> <<>>, was_depleted |-> FALSE]
  /\ fault_detector = FaultDetector_init
  /\ last_alert_ticks = <<>>
  /\ live_output = <<>>
  /\ edge = EdgeProcessor_init
  /\ predictive = PredictiveMaintenance_init
  /\ logger = SimulationLogger_init(StartedAt)
  /\ np_random = np_random_seed(config.random_seed)
  /\ runs = NoRuns

\* main.py 88-99: SensorNode(config), DigitalTwin(config), SyncEngine(config,
\* default_strategy); an exception leaves run_simulation before the loop
Construct ==
  LET e == SyncEngine_new(config.default_strategy)
  IN /\ pc = "construct"
     /\ IF e.raised # ""
        THEN pc' = "config_error" /\ sync_engine' = sync_engine
        ELSE pc' = "device" /\ sync_engine' = e.self
     /\ ret' = [op |-> "SyncEngine", val |-> e, was_depleted |-> FALSE]
     /\ UNCHANGED <<config, runs, edge, predictive, logger, np_random, fault_detector,
                 last_alert_ticks, live_output,
                 device, twin, tick, device_result, device_state,
                    warnings_fired, calls>>

\* sensor_node.py 46-51 with sampling_rate_s = 0: tick_count is advanced, the
\* modulo raises ZeroDivisionError, and the exception leaves the loop
TickRaises ==
  /\ pc = "device"
  /\ TickDividesByZero
  /\ device' = [device EXCEPT !.tick_count = @ + 1]
  /\ ret' = [op |-> "tick", val |-> [raised |-> "ZeroDivisionError"],
             was_depleted |-> device.battery.depleted]
  /\ pc' = "tick_raised"
  /\ UNCHANGED <<config, runs, edge, predictive, logger, np_random, fault_detector,
                 last_alert_ticks, live_output,
                 twin, sync_engine, tick, device_result, device_state,
                 warnings_fired, calls>>

NextStartup ==
  Construct \/ TickRaises \/ DeviceTick \/ SyncAttempt \/ NoSync \/ EndOfIteration

SpecStartup == InitStartup /\ [][NextStartup]_vars

\* ======================================================================
\* Component level: any sequence of calls on a BatteryModel
\* ======================================================================
OperationNames == {"sensing", "processing", "transmission", "idle", "calibration"}
DurationsMs == {0, 1000, 2000}
OperationLists == {<<>>, <<"idle">>, <<"sensing", "processing">>, <<"transmission", "sensing">>}

InitComponent == InitWith({"full_state"})

BatConsume ==
  \E operation \in OperationNames, d \in DurationsMs :
    /\ calls < MaxCalls
    /\ device' = [device EXCEPT !.battery = consume(@, operation, d)]
    /\ ret' = [op |-> "consume", val |-> <<operation, d>>,
               was_depleted |-> device.battery.depleted]
    /\ calls' = calls + 1
    /\ UNCHANGED <<config, runs, edge, predictive, logger, np_random, fault_detector,
                 last_alert_ticks, live_output,
                 twin, sync_engine, pc, tick, device_result, device_state, warnings_fired>>

BatTick ==
  \E ops \in OperationLists :
    /\ calls < MaxCalls
    /\ device' = [device EXCEPT !.battery = BatteryModel_tick(@, ops, time_step_ms)]
    /\ ret' = [op |-> "tick", val |-> ops, was_depleted |-> device.battery.depleted]
    /\ calls' = calls + 1
    /\ UNCHANGED <<config, runs, edge, predictive, logger, np_random, fault_detector,
                 last_alert_ticks, live_output,
                 twin, sync_engine, pc, tick, device_result, device_state, warnings_fired>>

BatCheckWarnings ==
  LET r == check_warnings(device.battery)
  IN /\ calls < MaxCalls
     /\ device' = [device EXCEPT !.battery = r.battery]
     /\ warnings_fired' = Fired(r.new_warnings)
     /\ ret' = [op |-> "check_warnings", val |-> r.new_warnings,
                was_depleted |-> device.battery.depleted]
     /\ calls' = calls + 1
     /\ UNCHANGED <<config, runs, edge, predictive, logger, np_random, fault_detector,
                 last_alert_ticks, live_output,
                 twin, sync_engine, pc, tick, device_result, device_state>>

NextBattery == BatConsume \/ BatTick \/ BatCheckWarnings

SpecBattery == InitComponent /\ [][NextBattery]_vars

\* ======================================================================
\* Component level: any sequence of should_sync and prepare_payload calls on
\* one strategy, with snapshots and ticks of the caller's choice
\* ======================================================================
\* Snapshots handed to the strategy, by index.  0 is the snapshot of a device
\* that has not ticked; the others differ from 1 in the watched fields by
\* amounts at and just beyond the two thresholds.
SampleReading == [temperature |-> 2500, humidity |-> 6000, light |-> 3000,
                  anomalies |-> <<>>]

Snapshot0 == get_full_state(SensorNode_init)
Snapshot1 == [Snapshot0 EXCEPT !.tick = 1, !.cpu.utilization = 30000]
Snapshot2 == [Snapshot1 EXCEPT !.cpu.utilization = 35000]
Snapshot3 == [Snapshot1 EXCEPT !.cpu.utilization = 35010]
Snapshot4 == [Snapshot1 EXCEPT !.tick = 3, !.cpu.utilization = 30600,
                               !.battery.percentage = 9995,
                               !.sensors.last_reading = <<SampleReading>>,
                               !.sensors.total_readings = 1]
Snapshot5 == [Snapshot4 EXCEPT !.battery.percentage = 9989]

Snapshot(i) ==
  CASE i = 0 -> Snapshot0
    [] i = 1 -> Snapshot1
    [] i = 2 -> Snapshot2
    [] i = 3 -> Snapshot3
    [] i = 4 -> Snapshot4
    [] i = 5 -> Snapshot5

SnapshotIds == {0, 1, 2, 3, 4, 5}
\* the ticks asked about: just after a snapshot, one short of the heartbeat, at it
SyncTicks == {Snapshot(i).tick + k :
                i \in SnapshotIds, k \in {1, max_silent_interval - 1, max_silent_interval}}

\* the snapshot of the latest prepare_payload (0 before the first)
LastPrepared(r) == IF r.op = "init" THEN 0 ELSE r.val.last

\* should_sync may be asked any number of times; calls counts the payloads
\* prepared.
StratShouldSync ==
  \E t \in SyncTicks, i \in SnapshotIds :
    LET s == Strategy_should_sync(sync_engine.strategy, t, Snapshot(i),
                                  Snapshot(i).battery.percentage)
    IN /\ sync_engine' = [sync_engine EXCEPT !.strategy = s.strategy]
       /\ ret' = [op |-> "should_sync",
                  val |-> [tick |-> t, snapshot |-> i, sync |-> s.sync,
                           last |-> LastPrepared(ret)],
                  was_depleted |-> FALSE]
       /\ UNCHANGED <<config, runs, edge, predictive, logger, np_random, fault_detector,
                 last_alert_ticks, live_output,
                 device, twin, pc, tick, device_result, device_state,
                      warnings_fired, calls>>

StratPreparePayload ==
  \E i \in SnapshotIds :
    LET p == Strategy_prepare_payload(sync_engine.strategy, Snapshot(i))
    IN /\ calls < MaxSyncCalls
       /\ sync_engine' = [sync_engine EXCEPT !.strategy = p.strategy]
       /\ ret' = [op |-> "prepare_payload",
                  val |-> [snapshot |-> i, payload |-> p.payload, last |-> i],
                  was_depleted |-> FALSE]
       /\ calls' = calls + 1
       /\ UNCHANGED <<config, runs, edge, predictive, logger, np_random, fault_detector,
                 last_alert_ticks, live_output,
                 device, twin, pc, tick, device_result, device_state,
                      warnings_fired>>

NextSync == StratShouldSync \/ StratPreparePayload

SpecSync == Init /\ [][NextSync]_vars

\* ======================================================================
\* Component level: any sequence of receive_sync, record_sync_failure and
\* tick calls on a DigitalTwin, at ticks that grow from call to call
\* ======================================================================
\* Snapshots handed to the twin, by index: 1 has consumed nothing, 2 is a busy
\* device part way through its battery, 3 is one tick short of depletion and
\* 4 is depleted.
TwinSnapshot1 == Snapshot1
TwinSnapshot2 == [Snapshot1 EXCEPT !.tick = 2, !.cpu.utilization = 94000,
                                   !.memory.used_kb = 4010,
                                   !.battery.remaining_mah = 324,
                                   !.battery.total_consumed_mah = 72,
                                   !.battery.percentage = 8526]
TwinSnapshot3 == [TwinSnapshot2 EXCEPT !.tick = 3,
                                       !.battery.remaining_mah = 36,
                                       !.battery.total_consumed_mah = 360,
                                       !.battery.percentage = 947]
TwinSnapshot4 == [TwinSnapshot3 EXCEPT !.tick = 4, !.cpu.utilization = 0,
                                       !.battery.remaining_mah = 0,
                                       !.battery.total_consumed_mah = 396,
                                       !.battery.percentage = 0,
                                       !.battery.depleted = TRUE]

TwinSnapshot(i) ==
  CASE i = 1 -> TwinSnapshot1
    [] i = 2 -> TwinSnapshot2
    [] i = 3 -> TwinSnapshot3
    [] i = 4 -> TwinSnapshot4

TwinSnapshotIds == {1, 2, 3, 4}
\* ticks from one call to the next: the next tick, or the 2000 ticks after
\* which the linear drift reaches 1
TwinTickSteps == {1, 2000}

\* the tick calls made since the last receive_sync
TicksSinceSync(r) == IF r.op = "init" THEN 0 ELSE r.val.ticks_since_sync

TwinReceiveSync ==
  \E i \in TwinSnapshotIds, d \in TwinTickSteps :
    /\ calls < MaxTwinCalls
    /\ twin' = receive_sync(twin, TwinSnapshot(i), tick)
    /\ ret' = [op |-> "receive_sync",
               val |-> [tick |-> tick, snapshot |-> i, ticks_since_sync |-> 0],
               was_depleted |-> FALSE]
    /\ tick' = tick + d
    /\ calls' = calls + 1
    /\ UNCHANGED <<config, runs, edge, predictive, logger, np_random, fault_detector,
                 last_alert_ticks, live_output,
                 device, sync_engine, pc, device_result, device_state,
                   warnings_fired>>

TwinRecordFailure ==
  \E d \in TwinTickSteps :
    /\ calls < MaxTwinCalls
    /\ twin' = record_sync_failure(twin, tick)
    /\ ret' = [op |-> "record_sync_failure",
               val |-> [tick |-> tick, snapshot |-> 0,
                        ticks_since_sync |-> TicksSinceSync(ret)],
               was_depleted |-> FALSE]
    /\ tick' = tick + d
    /\ calls' = calls + 1
    /\ UNCHANGED <<config, runs, edge, predictive, logger, np_random, fault_detector,
                 last_alert_ticks, live_output,
                 device, sync_engine, pc, device_result, device_state,
                   warnings_fired>>

TwinTick ==
  \E d \in TwinTickSteps :
    /\ calls < MaxTwinCalls
    /\ twin' = DigitalTwin_tick(twin, tick)
    /\ ret' = [op |-> "twin_tick",
               val |-> [tick |-> tick, snapshot |-> 0,
                        ticks_since_sync |-> TicksSinceSync(ret) + 1],
               was_depleted |-> FALSE]
    /\ tick' = tick + d
    /\ calls' = calls + 1
    /\ UNCHANGED <<config, runs, edge, predictive, logger, np_random, fault_detector,
                 last_alert_ticks, live_output,
                 device, sync_engine, pc, device_result, device_state,
                   warnings_fired>>

NextTwin == TwinReceiveSync \/ TwinRecordFailure \/ TwinTick

SpecTwin == InitComponent /\ [][NextTwin]_vars

\* ======================================================================
\* Component level: any sequence of fault checks as _run_loop makes them
\* (check, deduplication, live output), at ticks that grow from check to
\* check, on snapshots of the caller's choice
\* ======================================================================
AnomalousReading == [SampleReading EXCEPT !.anomalies = <<"temperature">>]

FaultSnapshotNormal == Snapshot1
FaultSnapshotCpuCritical == [Snapshot1 EXCEPT !.cpu.utilization = 96000]
FaultSnapshotCpuWarning == [Snapshot1 EXCEPT !.cpu.utilization = 80000]
FaultSnapshotMemory == [Snapshot1 EXCEPT !.memory.utilization = One,
                                         !.memory.used_kb = total_ram_kb,
                                         !.memory.leaked_kb = 4000]
FaultSnapshotAnomaly == [Snapshot1 EXCEPT !.sensors.last_reading = <<AnomalousReading>>,
                                          !.sensors.total_readings = 1,
                                          !.sensors.anomaly_count = 1]
FaultSnapshotDepleted == [Snapshot1 EXCEPT !.battery.remaining_mah = 0,
                                           !.battery.percentage = 0,
                                           !.battery.depleted = TRUE,
                                           !.is_active = FALSE]

FaultSnapshot(name) ==
  CASE name = "normal" -> FaultSnapshotNormal
    [] name = "cpu_critical" -> FaultSnapshotCpuCritical
    [] name = "cpu_warning" -> FaultSnapshotCpuWarning
    [] name = "memory" -> FaultSnapshotMemory
    [] name = "anomaly" -> FaultSnapshotAnomaly
    [] name = "depleted" -> FaultSnapshotDepleted

\* What one check is given: the snapshot, is_sensing_tick, and the twin's
\* last_sync_tick ("now": this tick, "first": tick 1, "never": 0).
Observations ==
  <<[state |-> "normal", is_sensing_tick |-> FALSE, synced |-> "now"],
    [state |-> "cpu_critical", is_sensing_tick |-> FALSE, synced |-> "now"],
    [state |-> "cpu_warning", is_sensing_tick |-> FALSE, synced |-> "now"],
    [state |-> "memory", is_sensing_tick |-> FALSE, synced |-> "now"],
    [state |-> "anomaly", is_sensing_tick |-> TRUE, synced |-> "now"],
    [state |-> "anomaly", is_sensing_tick |-> FALSE, synced |-> "now"],
    [state |-> "depleted", is_sensing_tick |-> FALSE, synced |-> "now"],
    [state |-> "normal", is_sensing_tick |-> FALSE, synced |-> "first"],
    [state |-> "normal", is_sensing_tick |-> FALSE, synced |-> "never"]>>

\* ticks from one check to the next: the next tick, or one short of the
\* deduplication window
FaultTickSteps == {1, alert_dedup_window - 1}

\* twin_state["last_sync_tick"] of an observation made at tick t
LastSyncOf(ob, t) ==
  CASE ob.synced = "now" -> t
    [] ob.synced = "first" -> 1
    [] ob.synced = "never" -> 0

\* the checks made so far: their ticks and observations
Checks(r) == IF r.op = "init" THEN <<>> ELSE r.val.checks

FaultCheck ==
  \E o \in DOMAIN Observations, step \in FaultTickSteps :
    LET ob == Observations[o]
        last == LastSyncOf(ob, tick)
        c == FaultDetector_check(fault_detector, tick, FaultSnapshot(ob.state),
                                 <<[current_drift |-> 0, last_sync_tick |-> last]>>,
                                 last, full_state_interval_s, ob.is_sensing_tick)
        d == deduplicate(c.new_alerts, tick, last_alert_ticks, <<>>)
    IN /\ calls < MaxFaultCalls
       /\ fault_detector' = c.detector
       /\ last_alert_ticks' = d.last_alert_ticks
       /\ live_output' = live_output \o d.new_alerts
       /\ ret' = [op |-> "check",
                  val |-> [tick |-> tick, raw_alerts |-> c.new_alerts,
                           new_alerts |-> d.new_alerts,
                           checks |-> Append(Checks(ret), [tick |-> tick, observation |-> o])],
                  was_depleted |-> FALSE]
       /\ tick' = tick + step
       /\ calls' = calls + 1
       /\ UNCHANGED <<config, runs, device, twin, sync_engine, pc, device_result, device_state,
                      warnings_fired, edge, predictive, logger, np_random>>

NextFault == FaultCheck

SpecFault == InitComponent /\ [][NextFault]_vars

\* ======================================================================
\* Component level: a PredictiveMaintenance fed one snapshot per tick, as
\* the tests of the predictor feed it, and asked for its predictions after
\* every update
\* ======================================================================
\* What the device does over the ticks it is watched: "steady" changes
\* nothing, "draining" and "both" drain the battery, "leaking" and "both"
\* leak memory, "slow_leak" holds one sample 0.001 KB lower than all the
\* others, and "spent" has run its battery down to 0.
PredictProfiles == {"steady", "draining", "leaking", "both", "slow_leak", "spent"}

\* remaining_mah of the k-th snapshot
ProfileBattery(profile, k) ==
  CASE profile = "draining" -> 300 - k
    [] profile = "both" -> 300 - 3 * k
    [] profile = "spent" -> Max(0, 40 - k)
    [] OTHER -> 300

\* used_kb of the k-th snapshot
ProfileMemory(profile, k) ==
  CASE profile = "leaking" -> 3000 + 50 * k
    [] profile = "both" -> 3000 + 10 * k
    [] profile = "slow_leak" -> IF k = 30 THEN 2999 ELSE 3000
    [] OTHER -> 3000

ProfileSnapshot(profile, k) ==
  [Snapshot1 EXCEPT !.tick = k,
                    !.battery.remaining_mah = ProfileBattery(profile, k),
                    !.memory.used_kb = ProfileMemory(profile, k)]

\* the profile is fixed by the first update
ProfilesLeft(r) == IF r.op = "init" THEN PredictProfiles ELSE {r.val.profile}

PredictUpdate ==
  \E profile \in ProfilesLeft(ret) :
    LET p == PredictiveMaintenance_update(predictive, tick, ProfileSnapshot(profile, tick))
    IN /\ calls < MaxPredictCalls
       /\ predictive' = p
       /\ ret' = [op |-> "update",
                  val |-> [profile |-> profile,
                           battery_depletion |-> predict_battery_depletion(p),
                           memory_exhaustion |-> predict_memory_exhaustion(p),
                           maintenance |-> get_maintenance_recommendation(p)],
                  was_depleted |-> FALSE]
       /\ tick' = tick + 1
       /\ calls' = calls + 1
       /\ UNCHANGED <<config, runs, device, twin, sync_engine, pc, device_result, device_state,
                      warnings_fired, fault_detector, last_alert_ticks, live_output,
                      edge, logger, np_random>>

NextPredict == PredictUpdate

SpecPredict == InitComponent /\ [][NextPredict]_vars

\* ======================================================================
\* Component level: any sequence of calls on a NetworkModel
\* ======================================================================
NetTransmit ==
  \E payload_bytes \in PayloadSizes, packet_lost \in BOOLEAN :
    LET t == transmit(device.network, payload_bytes, packet_lost)
    IN /\ calls < MaxNetCalls
       /\ device' = [device EXCEPT !.network = t.network]
       /\ ret' = [op |-> "transmit",
                  val |-> [payload_bytes |-> payload_bytes, packet_lost |-> packet_lost,
                           result |-> t.result],
                  was_depleted |-> device.battery.depleted]
       /\ calls' = calls + 1
       /\ UNCHANGED <<config, runs, edge, predictive, logger, np_random, fault_detector,
                 last_alert_ticks, live_output,
                 twin, sync_engine, pc, tick, device_result, device_state,
                      warnings_fired>>

NetTick ==
  /\ calls < MaxNetCalls
  /\ device' = [device EXCEPT !.network = NetworkModel_tick(@, time_step_ms)]
  /\ ret' = [op |-> "tick", val |-> <<>>, was_depleted |-> device.battery.depleted]
  /\ calls' = calls + 1
  /\ UNCHANGED <<config, runs, edge, predictive, logger, np_random, fault_detector,
                 last_alert_ticks, live_output,
                 twin, sync_engine, pc, tick, device_result, device_state, warnings_fired>>

NextNetwork == NetTransmit \/ NetTick

SpecNetwork == InitComponent /\ [][NextNetwork]_vars

\* ======================================================================
\* Component level: any sequence of calls on a MemoryModel
\* ======================================================================
FreeCounts == {<<>>, <<0>>, <<1>>, <<2>>, <<5>>}

MemAllocate ==
  /\ calls < MaxMemCalls
  /\ device' = [device EXCEPT !.memory = allocate_sensor_buffer(@)]
  /\ ret' = [op |-> "allocate_sensor_buffer", val |-> <<device.memory.buffer_count>>,
             was_depleted |-> device.battery.depleted]
  /\ calls' = calls + 1
  /\ UNCHANGED <<config, runs, edge, predictive, logger, np_random, fault_detector,
                 last_alert_ticks, live_output,
                 twin, sync_engine, pc, tick, device_result, device_state, warnings_fired>>

MemFree ==
  \E count \in FreeCounts :
    /\ calls < MaxMemCalls
    /\ device' = [device EXCEPT !.memory = free_sensor_buffers(@, count)]
    /\ ret' = [op |-> "free_sensor_buffers", val |-> <<count, device.memory.buffer_count>>,
               was_depleted |-> device.battery.depleted]
    /\ calls' = calls + 1
    /\ UNCHANGED <<config, runs, edge, predictive, logger, np_random, fault_detector,
                 last_alert_ticks, live_output,
                 twin, sync_engine, pc, tick, device_result, device_state, warnings_fired>>

MemTick ==
  /\ calls < MaxMemCalls
  /\ device' = [device EXCEPT !.memory = MemoryModel_tick(@, time_step_ms)]
  /\ ret' = [op |-> "tick", val |-> <<>>, was_depleted |-> device.battery.depleted]
  /\ calls' = calls + 1
  /\ UNCHANGED <<config, runs, edge, predictive, logger, np_random, fault_detector,
                 last_alert_ticks, live_output,
                 twin, sync_engine, pc, tick, device_result, device_state, warnings_fired>>

NextMemory == MemAllocate \/ MemFree \/ MemTick

SpecMemory == InitComponent /\ [][NextMemory]_vars

\* ======================================================================
\* Claims
\* ======================================================================
Thresholds == SeqToSet(warning_thresholds)
Breakdown(b) == SumOver(b.energy_breakdown, DOMAIN b.energy_breakdown)

\* C1: after any sequence of consume and tick calls 0 <= remaining_mah <=
\* capacity_mah; remaining_mah = 0 goes with depleted = true, depleted stays
\* true, and a call on a depleted battery leaves remaining_mah,
\* total_consumed_mah and energy_breakdown as they were.
C1_BatteryFloorsAndLatches ==
  [][ /\ 0 <= battery'.remaining_mah /\ battery'.remaining_mah <= capacity_mah
      /\ (battery'.remaining_mah = 0 => battery'.depleted)
      /\ (battery.depleted =>
            /\ battery'.depleted
            /\ battery'.remaining_mah = battery.remaining_mah
            /\ battery'.total_consumed_mah = battery.total_consumed_mah
            /\ battery'.energy_breakdown = battery.energy_breakdown) ]_vars

\* a consume that would draw charge was called on a depleted battery
C1_Witness ==
  /\ ret.op = "consume" /\ ret.was_depleted
  /\ consumed_mah(ret.val[1], ret.val[2]) > 0
  /\ battery.remaining_mah = 0

\* C2: the entries of energy_breakdown sum to total_consumed_mah after any
\* sequence of consume calls, for any operation name, the call that floors
\* the battery at zero included.
C2_BreakdownSumsToTotal == Breakdown(battery) = battery.total_consumed_mah

\* an unknown operation was booked and a later consume floored the battery
C2_Witness ==
  /\ "calibration" \in DOMAIN battery.energy_breakdown
  /\ battery.total_consumed_mah > capacity_mah
  /\ battery.depleted

\* C3: a device tick that finds the device inactive or its battery depleted
\* leaves it inactive and advances nothing; an inactive device stays inactive;
\* transmit_data on an inactive device fails and changes no component.
C3_InactiveIsTerminal ==
  [][ /\ (~device.is_active => ~device'.is_active)
      /\ (pc = "device" /\ pc' = "sync" /\ (~device.is_active \/ device.battery.depleted) =>
            /\ ~device'.is_active
            /\ device' = [device EXCEPT !.is_active = FALSE]
            /\ device_result'.new_reading = <<>>
            /\ ~device_result'.is_sensing_tick
            /\ ~device_result'.is_active)
      /\ (pc = "sync" /\ ret'.op = "transmit_data" /\ ~device.is_active =>
            /\ ~ret'.val.success
            /\ device' = device) ]_vars

\* transmit_data was called on a device that an earlier tick latched inactive
C3_Witness ==
  /\ ret.op = "transmit_data" /\ ret.val.reason = "device_inactive"
  /\ ~device.is_active /\ device.battery.depleted
  /\ ~device_result.is_sensing_tick /\ device_result.new_reading = <<>>

\* C4: whenever the loop has ended with the battery depleted, the device is
\* inactive.
C4_DepletedRunEndsInactive ==
  (pc = "done" /\ device.battery.depleted) => ~device.is_active

\* C5 as stated: over a finished run every threshold has fired exactly once.
C5_EveryThresholdFiresOnce ==
  pc = "done" => \A t \in Thresholds : warnings_fired[t] = 1

\* C5: every threshold fires at most once across a run: once if a device tick
\* has ended with remaining_mah / capacity_mah at or below it, and never while
\* no device tick has.
C5_ThresholdFiresOnceWhenReached ==
  \A t \in Thresholds :
    /\ warnings_fired[t] = IF t \in battery.warnings_triggered THEN 1 ELSE 0
    /\ (warnings_fired[t] = 1 => AtOrBelow(battery, t))
    /\ (pc = "sync" /\ device_result.is_active /\ AtOrBelow(battery, t)
          => warnings_fired[t] = 1)

\* a run has ended with one threshold fired and the other never reached
C5_Witness ==
  /\ pc = "done"
  /\ warnings_fired[50] = 1 /\ warnings_fired[20] = 0
  /\ ~AtOrBelow(battery, 20)

\* C6: check_warnings returns each threshold at most once: warnings_triggered
\* only grows, and a check returns exactly the thresholds at or above the
\* battery level that no earlier check returned, several at once included.
C6_WarningsReturnedOnce ==
  [][ /\ battery.warnings_triggered \subseteq battery'.warnings_triggered
      /\ \A t \in Thresholds : warnings_fired'[t] <= 1
      /\ (ret'.op = "check_warnings" /\ calls' = calls + 1 =>
            /\ SeqToSet(ret'.val) =
                 {t \in Thresholds : AtOrBelow(battery, t)} \ battery.warnings_triggered
            /\ Len(ret'.val) = Cardinality(SeqToSet(ret'.val))
            /\ battery'.warnings_triggered =
                 battery.warnings_triggered \cup SeqToSet(ret'.val)) ]_vars

\* one check returned two thresholds, and the next check returned none
C6_Witness ==
  /\ ret.op = "check_warnings" /\ ret.val = <<>>
  /\ battery.warnings_triggered = Thresholds
  /\ warnings_fired[50] = 1 /\ warnings_fired[20] = 1
  /\ calls = 4 /\ battery.total_consumed_mah = 480

\* C7: over a run remaining_mah never grows, and total_bytes_sent,
\* total_packets_sent, overload_events, the three peaks and total_syncs never
\* shrink.
C7_Monotone ==
  [][ /\ battery'.remaining_mah <= battery.remaining_mah
      /\ network'.total_bytes_sent >= network.total_bytes_sent
      /\ network'.total_packets_sent >= network.total_packets_sent
      /\ cpu'.overload_events >= cpu.overload_events
      /\ cpu'.peak_utilization >= cpu.peak_utilization
      /\ memory'.peak_usage_kb >= memory.peak_usage_kb
      /\ network'.peak_bandwidth_utilization >= network.peak_bandwidth_utilization
      /\ sync_engine'.total_syncs >= sync_engine.total_syncs ]_vars

\* every counter has moved, and two peaks stand above the current value
C7_Witness ==
  /\ cpu.overload_events > 0 /\ cpu.peak_utilization > cpu.current_utilization
  /\ network.peak_bandwidth_utilization > network.current_bandwidth_utilization
  /\ memory.peak_usage_kb > base_usage_kb
  /\ network.total_packets_sent > network.total_packets_lost
  /\ network.total_packets_lost > 0
  /\ sync_engine.total_syncs > 1
  /\ battery.remaining_mah < capacity_mah

C9_MemoryUsage ==
  [][ /\ memory'.current_usage_kb =
           Min(total_ram_kb, base_usage_kb
                 + memory'.buffer_count * per_reading_buffer_kb + memory'.leaked_kb)
      /\ 0 <= memory'.buffer_count /\ memory'.buffer_count <= max_buffer_readings
      /\ (ret'.op = "allocate_sensor_buffer" /\ calls' = calls + 1
            /\ memory.buffer_count = max_buffer_readings => memory' = memory)
      /\ (ret'.op = "free_sensor_buffers" /\ calls' = calls + 1 =>
            LET n == IF ret'.val[1] = <<>> THEN memory.buffer_count ELSE ret'.val[1][1]
            IN memory'.buffer_count = memory.buffer_count - Min(n, memory.buffer_count)) ]_vars

\* allocate was called at the cap, with the usage capped at the RAM size
C9_Witness ==
  /\ ret.op = "allocate_sensor_buffer" /\ ret.val = <<max_buffer_readings>>
  /\ memory.buffer_count = max_buffer_readings
  /\ memory.current_usage_kb = total_ram_kb
  /\ base_usage_kb + memory.buffer_count * per_reading_buffer_kb + memory.leaked_kb
       > total_ram_kb

\* C10: a device tick that ends with the usage at total_ram_kb raises
\* oom_events by exactly one.
C10_OneOomPerTick ==
  [][ pc = "device" /\ pc' = "sync" /\ device_result'.is_active
      /\ memory'.current_usage_kb = total_ram_kb
        => memory'.oom_events = memory.oom_events + 1 ]_vars

\* the size handed to transmit_data in the step that ends here
SentSize(e) == e.sync_events[Len(e.sync_events)].size_bytes

\* C12: transmit_data on an active device charges the battery for a
\* transmission of payload_bytes / (max_bandwidth_kbps * 1000 / 8) seconds,
\* the same for a delivered and for a lost packet (a battery already depleted
\* is charged nothing in either case).
C12_TransmissionCharged ==
  [][ pc = "sync" /\ ret'.op = "transmit_data" /\ device.is_active
        => LET charge == IF battery.depleted THEN 0
                         ELSE (current_draw_ma.transmission * SentSize(sync_engine')
                                 * 1000) \div (max_bandwidth_kbps * 125 * 1000)
           IN /\ battery'.energy_breakdown.transmission
                   = battery.energy_breakdown.transmission + charge
              /\ battery'.total_consumed_mah = battery.total_consumed_mah + charge
              /\ battery'.remaining_mah = Max(0, battery.remaining_mah - charge) ]_vars

\* a run whose only transmissions were lost has paid for them
C12_Witness ==
  /\ ret.op = "transmit_data"
  /\ ret.val.packet_loss
  /\ network.total_packets_sent = network.total_packets_lost
  /\ network.total_packets_sent > 1
  /\ battery.energy_breakdown.transmission > 0

\* C13: after transmit_data the buffer count is 0 when the packet was
\* delivered and unchanged when it was not, and it never exceeds
\* max_buffer_readings.
C13_BuffersFreedOnSuccess ==
  [][ pc = "sync" /\ ret'.op = "transmit_data"
        => /\ memory'.buffer_count = IF ret'.val.success THEN 0 ELSE memory.buffer_count
           /\ memory'.buffer_count <= max_buffer_readings ]_vars

\* three readings buffered across three lost syncs
C13_Witness ==
  /\ ret.op = "transmit_data"
  /\ ret.val.packet_loss
  /\ network.total_packets_lost >= 3
  /\ memory.buffer_count = max_buffer_readings

\* C14: under the full_state strategy a sync is attempted iff
\* tick - last_sync_tick >= full_state_interval_s, last_sync_tick becomes the
\* tick of the snapshot handed to prepare_payload, and while the device is
\* active the attempts fall exactly on the multiples of full_state_interval_s.
C14_FullStateSyncsAtMultiples ==
  [][ pc = "sync" /\ pc' = "end" /\ sync_engine.strategy.name = "full_state"
        => LET attempted == ret'.op = "transmit_data"
               last == sync_engine.strategy.last_sync_tick
           IN /\ attempted <=> (tick - last >= full_state_interval_s)
              /\ device.is_active => (attempted <=> (tick % full_state_interval_s = 0))
              /\ sync_engine'.strategy.last_sync_tick
                   = IF attempted THEN device_state.tick ELSE last ]_vars

\* the second sync of a full_state run
C14_Witness ==
  /\ sync_engine.strategy.name = "full_state"
  /\ pc = "end"
  /\ ret.op = "transmit_data"
  /\ tick = 2 * full_state_interval_s
  /\ sync_engine.strategy.last_sync_tick = tick
  /\ sync_engine.total_syncs = 2

\* C11: in any sequence of transmit and tick calls, lost packets never
\* outnumber sent ones and every transmit counts one packet sent; a lost
\* packet returns failure with no bytes and leaves both byte counters alone, a
\* delivered one adds min(payload_bytes, max_payload_bytes) to both.
C11_PacketAccounting ==
  [][ /\ network'.total_packets_lost <= network'.total_packets_sent
      /\ ret'.op = "transmit" =>
           LET r == ret'.val.result
               actual == IF ret'.val.payload_bytes < max_payload_bytes
                         THEN ret'.val.payload_bytes ELSE max_payload_bytes
           IN /\ network'.total_packets_sent = network.total_packets_sent + 1
              /\ IF ret'.val.packet_lost
                 THEN /\ ~r.success /\ r.bytes_sent = 0 /\ r.packet_loss
                      /\ network'.total_packets_lost = network.total_packets_lost + 1
                      /\ network'.bytes_sent_this_tick = network.bytes_sent_this_tick
                      /\ network'.total_bytes_sent = network.total_bytes_sent
                 ELSE /\ r.success /\ r.bytes_sent = actual /\ ~r.packet_loss
                      /\ network'.total_packets_lost = network.total_packets_lost
                      /\ network'.bytes_sent_this_tick = network.bytes_sent_this_tick + actual
                      /\ network'.total_bytes_sent = network.total_bytes_sent + actual
      /\ ret'.op = "tick" =>
           /\ network'.total_packets_sent = network.total_packets_sent
           /\ network'.total_packets_lost = network.total_packets_lost
           /\ network'.total_bytes_sent = network.total_bytes_sent ]_vars

\* an oversized packet delivered after a lost one and a tick
C11_Witness ==
  /\ ret.op = "transmit"
  /\ ret.val.payload_bytes > max_payload_bytes
  /\ ret.val.result.success
  /\ network.total_packets_lost > 0
  /\ network.total_packets_sent > network.total_packets_lost + 1
  /\ network.bytes_sent_this_tick = max_payload_bytes
  /\ network.total_bytes_sent > network.bytes_sent_this_tick

\* C15: the first payload a delta strategy prepares has type full_state and
\* carries the whole snapshot; every later one has type delta.
C15_DeltaFirstIsFull ==
  [][ sync_engine.strategy.name = "delta" /\ ret'.op = "prepare_payload"
        => LET payload == ret'.val.payload
           IN IF calls = 0
              THEN payload.type = "full_state"
                   /\ payload.data = Snapshot(ret'.val.snapshot)
              ELSE payload.type = "delta" ]_vars

\* a third payload, prepared after a first one whose snapshot had tick 0
C15_Witness ==
  /\ sync_engine.strategy.name = "delta"
  /\ ret.op = "prepare_payload"
  /\ calls = 3
  /\ ret.val.payload.type = "delta"
  /\ sync_engine.strategy.last_sync_tick = 0

\* C16: a later payload of the delta strategy holds exactly the numeric
\* leaves of the snapshot that the previously prepared snapshot lacked or
\* whose value moved by more than delta_threshold relative to the previous
\* value (from 0: to anything but 0), with their current values;
\* fields_changed counts them, fields_total counts the leaves, and the same
\* snapshot twice gives an empty delta.
C16_DeltaIsExact ==
  [][ sync_engine.strategy.name = "delta" /\ ret'.op = "prepare_payload" /\ calls > 0
        => LET payload == ret'.val.payload
               prev == extract_numerics(Snapshot(LastPrepared(ret)))
               cur == extract_numerics(Snapshot(ret'.val.snapshot))
               moved(old, new) == IF old = 0 THEN new # 0
                                  ELSE Abs(new - old) * 100 > delta_threshold * Abs(old)
               expected == {k \in DOMAIN cur :
                              k \notin DOMAIN prev \/ moved(prev[k], cur[k])}
           IN /\ DOMAIN payload.data = expected
              /\ \A k \in expected : payload.data[k] = cur[k]
              /\ payload.fields_changed = Cardinality(expected)
              /\ payload.fields_total = Cardinality(DOMAIN cur)
              /\ payload.fields_changed <= payload.fields_total
              /\ ret'.val.snapshot = LastPrepared(ret) => payload.fields_changed = 0
              /\ sync_engine'.strategy.last_synced_state = <<cur>> ]_vars

\* a delta with the leaves of a first reading, without the CPU utilization
\* that moved by exactly delta_threshold
C16_Witness ==
  /\ sync_engine.strategy.name = "delta"
  /\ ret.op = "prepare_payload"
  /\ calls = 2
  /\ ret.val.snapshot = 4
  /\ <<"sensors", "last_reading", "temperature">> \in DOMAIN ret.val.payload.data
  /\ <<"sensors", "total_readings">> \in DOMAIN ret.val.payload.data
  /\ <<"cpu", "utilization">> \notin DOMAIN ret.val.payload.data
  /\ <<"battery", "percentage">> \notin DOMAIN ret.val.payload.data
  /\ ret.val.payload.fields_changed = 5

\* the tick of the last sync as the strategy knows it
LastSyncTick == IF calls = 0 THEN 0 ELSE Snapshot(LastPrepared(ret)).tick

\* C17: from the last sync tick s on, the event-driven strategy answers true
\* at every tick from s + 6 * full_state_interval_s, whatever the snapshot,
\* and asking does not move s.
C17_EventHeartbeat ==
  [][ sync_engine.strategy.name = "event_driven" /\ ret'.op = "should_sync"
        => /\ sync_engine.strategy.last_sync_tick = LastSyncTick
           /\ sync_engine'.strategy = sync_engine.strategy
           /\ ret'.val.tick >= LastSyncTick + 6 * full_state_interval_s
                => ret'.val.sync ]_vars

\* the heartbeat on the very snapshot that was synced last
C17_Witness ==
  /\ sync_engine.strategy.name = "event_driven"
  /\ ret.op = "should_sync"
  /\ calls > 0
  /\ ret.val.snapshot = ret.val.last
  /\ ret.val.tick = LastSyncTick + 6 * full_state_interval_s
  /\ ret.val.sync

\* the four watched fields of a snapshot, all in 1/One
Watched(state) ==
  <<state.cpu.utilization, state.memory.utilization,
    state.battery.percentage * (One \div 100), state.network.bandwidth_utilization>>

\* C18: the event-driven strategy answers true iff nothing has been prepared
\* yet, or the heartbeat interval has elapsed, or one of the four watched
\* fields is more than event_change_threshold away from its value in the last
\* prepared snapshot.
C18_EventDrivenIff ==
  [][ sync_engine.strategy.name = "event_driven" /\ ret'.op = "should_sync"
        => LET old == Watched(Snapshot(LastPrepared(ret)))
               new == Watched(Snapshot(ret'.val.snapshot))
           IN ret'.val.sync <=>
                \/ calls = 0
                \/ ret'.val.tick - LastSyncTick >= 6 * full_state_interval_s
                \/ \E f \in 1..4 : Abs(new[f] - old[f]) > event_change_threshold ]_vars

\* no sync for a snapshot whose CPU utilization is exactly the threshold away
C18_Witness ==
  /\ sync_engine.strategy.name = "event_driven"
  /\ ret.op = "should_sync"
  /\ calls > 0
  /\ ret.val.last = 1
  /\ ret.val.snapshot = 2
  /\ ~ret.val.sync

\* C19: constructing the SyncEngine with a name outside STRATEGY_MAP raises
\* ValueError before any tick: no strategy and no counter is set on the
\* object, no engine is bound, the device has not ticked, and nothing runs
\* afterwards.
C19_InvalidStrategyRaises ==
  [][ /\ pc # "config_error"
      /\ (pc = "construct" /\ config.default_strategy \notin STRATEGY_MAP)
           => /\ pc' = "config_error"
              /\ ret'.val.raised = "ValueError"
              /\ DOMAIN ret'.val.self = {"strategy_name"}
              /\ sync_engine' = NoEngine
              /\ device' = SensorNode_init /\ twin' = DigitalTwin_init
              /\ tick' = 1
      /\ (pc = "construct" /\ config.default_strategy \in STRATEGY_MAP)
           => /\ pc' = "device"
              /\ sync_engine'.strategy.name = config.default_strategy ]_vars

\* the run has stopped on the ValueError
C19_Witness ==
  /\ pc = "config_error"
  /\ config.default_strategy = "nonexistent"
  /\ ret.op = "SyncEngine"
  /\ ret.val.raised = "ValueError"
  /\ device.tick_count = 0

\* C20: with an invalid numeric value in the configuration (here
\* sampling_rate_seconds = 0) no tick is entered and no tick raises.
C20_InvalidNumbersRejected ==
  config.sampling_rate_seconds <= 0 => (pc # "tick_raised" /\ device.tick_count = 0)

RECURSIVE BytesOfSuccesses(_)
\* the sum of size_bytes over the events with success = true
BytesOfSuccesses(events) ==
  IF events = <<>> THEN 0
  ELSE (IF Head(events).success THEN Head(events).size_bytes ELSE 0)
         + BytesOfSuccesses(Tail(events))

\* C21: every step leaves the logged events in place and record_sync appends
\* one event {tick, size_bytes, success, strategy}; total_syncs is the number
\* of events, total_bytes_synced the sum of size_bytes over the successful
\* ones, and a failed sync leaves total_bytes_synced unchanged.
C21_SyncLogAppendOnly ==
  [][ LET old == sync_engine.sync_events
          new == sync_engine'.sync_events
      IN /\ Len(new) >= Len(old)
         /\ SubSeq(new, 1, Len(old)) = old
         /\ sync_engine'.total_syncs = Len(new)
         /\ sync_engine'.total_bytes_synced = BytesOfSuccesses(new)
         /\ pc = "sync" /\ ret'.op = "transmit_data" =>
               /\ Len(new) = Len(old) + 1
               /\ new[Len(new)] = [tick |-> tick, size_bytes |-> SentSize(sync_engine'),
                                   success |-> ret'.val.success,
                                   strategy |-> config.default_strategy]
               /\ ~ret'.val.success =>
                     sync_engine'.total_bytes_synced = sync_engine.total_bytes_synced ]_vars

\* a failed sync logged after a successful one of another size
C21_Witness ==
  /\ ret.op = "transmit_data"
  /\ ~ret.val.success
  /\ Len(sync_engine.sync_events) = 3
  /\ sync_engine.sync_events[1].success
  /\ sync_engine.sync_events[1].size_bytes # sync_engine.sync_events[3].size_bytes
  /\ sync_engine.total_bytes_synced
       = sync_engine.sync_events[1].size_bytes
         + (IF sync_engine.sync_events[2].success
            THEN sync_engine.sync_events[2].size_bytes ELSE 0)

\* the mean of the differences the drift metric compares, in 1/One: the
\* battery charge over the capacity (when both charges are non-zero), the
\* memory used over the RAM size, the CPU utilization
MeasuredDrift(predicted, actual) ==
  LET b == Abs(predicted.battery.remaining_mah - actual.battery.remaining_mah)
      m == Abs(predicted.memory.used_kb - actual.memory.used_kb)
      c == Abs(predicted.cpu.utilization - actual.cpu.utilization)
      with_battery == predicted.battery.remaining_mah # 0 /\ actual.battery.remaining_mah # 0
  IN IF with_battery
     THEN ((b * One) \div capacity_mah + (m * One) \div total_ram_kb + c) \div 3
     ELSE ((m * One) \div total_ram_kb + c) \div 2

\* C22: receive_sync(state, tick) sets current_drift to the drift between
\* the state the twin predicted just before (the last snapshot as
\* extrapolated since) and the received state, 0 on the first sync;
\* device_state and predicted_state become the received snapshot,
\* last_sync_tick the tick, total_syncs and sync_success_count grow by one and
\* each of the three histories gets exactly one entry.  The copies are
\* independent: a later tick, which rewrites the predicted battery, leaves
\* device_state and state_history alone.
C22_ReceiveSync ==
  [][ /\ ret'.op = "receive_sync" =>
           LET state == TwinSnapshot(ret'.val.snapshot)
               drift == IF twin.predicted_state = <<>> THEN 0
                        ELSE MeasuredDrift(twin.predicted_state[1], state)
               n == Len(twin.state_history)
           IN /\ twin'.current_drift = drift
              /\ twin'.device_state = <<state>>
              /\ twin'.predicted_state = <<state>>
              /\ twin'.last_sync_tick = ret'.val.tick
              /\ twin'.total_syncs = twin.total_syncs + 1
              /\ twin'.sync_success_count = twin.sync_success_count + 1
              /\ twin'.sync_fail_count = twin.sync_fail_count
              /\ twin'.state_history
                   = Append(twin.state_history,
                            [tick |-> ret'.val.tick, state |-> state, drift |-> drift])
              /\ twin'.drift_history = Append(twin.drift_history, drift)
              /\ twin'.accuracy_history = Append(twin.accuracy_history, One - drift)
      /\ ret'.op = "twin_tick" =>
           /\ twin'.device_state = twin.device_state
           /\ twin'.state_history = twin.state_history ]_vars

\* the same snapshot received twice with a tick between: the drift is the
\* battery the twin extrapolated away in that tick
C22_Witness ==
  /\ ret.op = "receive_sync"
  /\ calls = 3
  /\ Len(twin.state_history) = 2
  /\ twin.state_history[1].state = TwinSnapshot2
  /\ twin.state_history[2].state = TwinSnapshot2
  /\ twin.drift_history = <<0, 50, twin.current_drift>>
  /\ twin.current_drift > 0

Agree(predicted, actual) ==
  /\ predicted.battery.remaining_mah = actual.battery.remaining_mah
  /\ predicted.memory.used_kb = actual.memory.used_kb
  /\ predicted.cpu.utilization = actual.cpu.utilization

C24_TickGrowsDrift ==
  [][ ret'.op = "twin_tick"
        => IF twin.sync_success_count = 0
           THEN twin' = twin
           ELSE LET since == ret'.val.tick - twin.last_sync_tick
                    drift == IF since * 50 < One THEN since * 50 ELSE One
                    old == twin.predicted_state[1].battery.remaining_mah
                    new == twin'.predicted_state[1].battery.remaining_mah
                IN /\ twin'.current_drift = drift
                   /\ TicksSinceSync(ret) > 0 => twin'.current_drift >= twin.current_drift
                   /\ new <= old /\ new >= 0
                   /\ twin'.drift_history = Append(twin.drift_history, drift)
                   /\ twin'.accuracy_history = Append(twin.accuracy_history, One - drift)
                   /\ twin'.last_sync_tick = twin.last_sync_tick
                   /\ twin'.total_syncs = twin.total_syncs ]_vars

\* a third tick after a sync: the drift is held at 1 and the predicted
\* battery, which the device still had, at 0
C24_Witness ==
  /\ ret.op = "twin_tick"
  /\ TicksSinceSync(ret) = 3
  /\ (ret.val.tick - twin.last_sync_tick) * 50 > One
  /\ twin.current_drift = One
  /\ twin.drift_history[Len(twin.drift_history) - 2] < One
  /\ twin.predicted_state[1].battery.remaining_mah = 0
  /\ twin.device_state[1].battery.remaining_mah > 0

\* C25: record_sync_failure adds one to sync_fail_count and to total_syncs
\* and leaves device_state, predicted_state, last_sync_tick, current_drift,
\* sync_success_count and the three histories as they were; after every twin
\* call total_syncs = sync_success_count + sync_fail_count.
C25_FailureOnlyCounts ==
  [][ /\ twin'.total_syncs = twin'.sync_success_count + twin'.sync_fail_count
      /\ ret'.op = "record_sync_failure" =>
           /\ twin'.sync_fail_count = twin.sync_fail_count + 1
           /\ twin'.total_syncs = twin.total_syncs + 1
           /\ twin'.sync_success_count = twin.sync_success_count
           /\ twin'.device_state = twin.device_state
           /\ twin'.predicted_state = twin.predicted_state
           /\ twin'.last_sync_tick = twin.last_sync_tick
           /\ twin'.current_drift = twin.current_drift
           /\ twin'.state_history = twin.state_history
           /\ twin'.drift_history = twin.drift_history
           /\ twin'.accuracy_history = twin.accuracy_history ]_vars

\* a second failure in a row, after a sync and a tick that moved the
\* predicted battery away from the received one
C25_Witness ==
  /\ ret.op = "record_sync_failure"
  /\ twin.sync_fail_count = 2
  /\ twin.sync_success_count = 1
  /\ twin.total_syncs = 3
  /\ twin.current_drift > 0
  /\ twin.predicted_state # twin.device_state

\* the snapshot given to the i-th check of a list of checks
Checked(checks, i) == FaultSnapshot(Observations[checks[i].observation].state)

\* the alerts of a list that have the component and the severity
Minted(alerts, component, severity) ==
  {i \in DOMAIN alerts : alerts[i].component = component /\ alerts[i].severity = severity}

\* C26: a check mints a CRITICAL CPU alert iff the CPU utilization was above
\* cpu_critical_threshold on that check and on each of the
\* cpu_critical_duration_s - 1 checks right before it, and a check on which
\* it is not above the threshold restarts the count.
C26_CpuCriticalSustained ==
  [][ ret'.op = "check"
        => LET checks == ret'.val.checks
               n == Len(checks)
               above(i) == Checked(checks, i).cpu.utilization > cpu_critical_threshold
               sustained == /\ n >= cpu_critical_duration_s
                            /\ \A i \in (n - cpu_critical_duration_s + 1)..n : above(i)
           IN /\ (Minted(ret'.val.raw_alerts, "CPU", "CRITICAL") # {}) <=> sustained
              /\ ~above(n) => fault_detector'.cpu_high_ticks = 0 ]_vars

\* the fault types whose condition holds on the i-th check of a history
Held(checks, i) ==
  LET ob == Observations[checks[i].observation]
      state == Checked(checks, i)
      last == LastSyncOf(ob, checks[i].tick)
      reading == state.sensors.last_reading
      anomalies == IF ob.is_sensing_tick /\ reading # <<>> THEN reading[1].anomalies ELSE <<>>
  IN (IF state.memory.utilization > memory_critical_threshold THEN {"memory_oom"} ELSE {})
     \cup (IF state.memory.leaked_kb > 1000 THEN {"memory_leak"} ELSE {})
     \cup (IF /\ checks[i].tick - last > full_state_interval_s * communication_timeout_multiplier
              /\ last > 0
           THEN {"comm_timeout"} ELSE {})
     \cup {"sensor_" \o anomalies[k] : k \in DOMAIN anomalies}

\* C27: faults_detected is a first-occurrence log. After every check no
\* fault type is listed twice, every type whose condition has held on some
\* check is listed, each entry carries the tick of the first check on which
\* its condition held, and the check leaves the entries it found in place.
C27_FirstOccurrenceLog ==
  [][ ret'.op = "check"
        => LET checks == ret'.val.checks
               old == fault_detector.faults_detected
               log == fault_detector'.faults_detected
           IN /\ \A i, j \in DOMAIN log : log[i].type = log[j].type => i = j
              /\ \A i \in DOMAIN checks : Held(checks, i) \subseteq FaultTypes(log)
              /\ \A k \in DOMAIN log :
                    \E i \in DOMAIN checks :
                      /\ checks[i].tick = log[k].tick
                      /\ log[k].type \in Held(checks, i)
                      /\ \A j \in 1..(i - 1) : log[k].type \notin Held(checks, j)
              /\ Len(log) >= Len(old)
              /\ SubSeq(log, 1, Len(old)) = old ]_vars

\* a fault whose condition held on two checks, in a log of two entries
C27_Witness ==
  /\ ret.op = "check"
  /\ Len(fault_detector.faults_detected) >= 2
  /\ \E i, j \in DOMAIN ret.val.checks :
        /\ i < j
        /\ Held(ret.val.checks, i) \cap Held(ret.val.checks, j) # {}

\* C28: a check mints a COMMUNICATION FAULT alert only when
\* tick - last_sync_tick > expected_sync_interval * communication_timeout_multiplier
\* and last_sync_tick > 0, and the detector mints that alert once per run:
\* its alert list never holds more than one COMMUNICATION alert.
C28_CommunicationFaultOnce ==
  [][ ret'.op = "check"
        => LET checks == ret'.val.checks
           IN /\ Minted(ret'.val.raw_alerts, "COMMUNICATION", "FAULT") # {}
                   => "comm_timeout" \in Held(checks, Len(checks))
              /\ Cardinality(Minted(fault_detector'.alerts, "COMMUNICATION", "FAULT")) <= 1 ]_vars

\* C29: a check mints a SENSOR FAULT alert only when is_sensing_tick is true
\* and the last reading lists anomalies, and the fault of one sensor name is
\* minted once per run: the detector's alert list never holds two SENSOR
\* alerts for the same sensor name.
C29_SensorFaultOnce ==
  [][ ret'.op = "check"
        => LET checks == ret'.val.checks
               ob == Observations[checks[Len(checks)].observation]
               reading == Checked(checks, Len(checks)).sensors.last_reading
           IN /\ Minted(ret'.val.raw_alerts, "SENSOR", "FAULT") # {}
                   => /\ ob.is_sensing_tick
                      /\ reading # <<>>
                      /\ reading[1].anomalies # <<>>
              /\ LET alerts == fault_detector'.alerts
                 IN \A i, j \in Minted(alerts, "SENSOR", "FAULT") :
                      alerts[i].message = alerts[j].message => i = j ]_vars

\* C30: of the alerts the loop lets through, two with the same component
\* and severity are at least alert_dedup_window ticks apart, so no tick lets
\* two of one key through; whatever is suppressed, the detector's alert
\* list takes every alert of the check and critical_count and warning_count
\* count every one of them.
C30_DeduplicationWindow ==
  [][ ret'.op = "check"
        => LET raw_alerts == ret'.val.raw_alerts
               out == live_output'
           IN /\ \A i, j \in DOMAIN out :
                    (/\ i < j
                     /\ out[i].component = out[j].component
                     /\ out[i].severity = out[j].severity)
                      => out[j].tick - out[i].tick >= alert_dedup_window
              /\ fault_detector'.alerts = fault_detector.alerts \o raw_alerts
              /\ fault_detector'.critical_count
                   = fault_detector.critical_count + CountSeverity(raw_alerts, "CRITICAL")
              /\ fault_detector'.warning_count
                   = fault_detector.warning_count + CountSeverity(raw_alerts, "WARNING") ]_vars

\* a check some of whose alerts were suppressed, one of them twice on the
\* same tick, after an alert of a key was let through a second time
C30_Witness ==
  /\ ret.op = "check"
  /\ Len(ret.val.new_alerts) < Len(ret.val.raw_alerts)
  /\ \E i, j \in DOMAIN ret.val.raw_alerts :
        i < j /\ AlertKey(ret.val.raw_alerts[i]) = AlertKey(ret.val.raw_alerts[j])
  /\ \E i, j \in DOMAIN live_output :
        i < j /\ AlertKey(live_output[i]) = AlertKey(live_output[j])

\* C31: with fewer than min_history samples in its history,
\* predict_battery_depletion returns an infinite eta_hours and eta_ticks with
\* confidence "low", and so does predict_memory_exhaustion; neither raises.
C31_NoPredictionBelowSixtySamples ==
  /\ Len(predictive.battery_history) < min_history
       => LET pred == predict_battery_depletion(predictive)
          IN pred.eta_hours = inf /\ pred.eta_ticks = inf /\ pred.confidence = "low"
  /\ Len(predictive.memory_history) < min_history
       => LET pred == predict_memory_exhaustion(predictive)
          IN pred.eta_hours = inf /\ pred.eta_ticks = inf /\ pred.confidence = "low"

\* 59 samples of a draining battery and a leaking memory: one more and both
\* predictions are finite
C31_Witness ==
  /\ ret.op = "update"
  /\ ret.val.profile = "both"
  /\ Len(predictive.battery_history) = min_history - 1
  /\ Len(predictive.memory_history) = min_history - 1
  /\ ret.val.battery_depletion.eta_hours = inf
  /\ ~predict_battery_depletion(
        PredictiveMaintenance_update(predictive, tick, ProfileSnapshot("both", tick))
      ).eta_hours.inf

\* C32: get_maintenance_recommendation recommends nothing iff neither
\* eta_hours is finite, and with a finite one it returns recommended = true
\* and maintenance_in_hours = 0.7 times the smaller finite eta_hours, to the
\* hundredth of an hour.
C32_RecommendIffFiniteEta ==
  ret.op = "update"
    => LET etas == {ret.val.battery_depletion.eta_hours, ret.val.memory_exhaustion.eta_hours}
           finite == {eta.value : eta \in {e \in etas : ~e.inf}}
           earliest == CHOOSE v \in finite : \A w \in finite : v <= w
           maintenance == ret.val.maintenance
       IN /\ ~maintenance.recommended <=> finite = {}
          /\ finite # {}
               => /\ maintenance.recommended
                  /\ Abs(10 * maintenance.maintenance_in_hours - 7 * earliest) <= 5

\* C34: an iteration runs its steps in order.  The device tick comes first
\* and touches neither the twin, the strategy, the detector nor the
\* predictor; then the sync step updates the twin by exactly one of
\* receive_sync (the transmission succeeded), record_sync_failure (it
\* failed) and tick (no sync was due); then the fault check reads the state
\* of the twin that update produced, and the predictor is fed if and only if
\* the tick is divisible by 10.
C34_StepOrder ==
  [][ /\ pc = "device"
        => /\ pc' = "sync"
           /\ device.is_active /\ ~device.battery.depleted
                => device'.tick_count = device.tick_count + 1
           /\ UNCHANGED <<twin, sync_engine, fault_detector, predictive, tick>>
      /\ pc = "sync"
        => /\ pc' = "end"
           /\ twin' = CASE ret'.op = "transmit_data" /\ ret'.val.success
                             -> receive_sync(twin, device_state, tick)
                        [] ret'.op = "transmit_data" /\ ~ret'.val.success
                             -> record_sync_failure(twin, tick)
                        [] OTHER -> DigitalTwin_tick(twin, tick)
           /\ ret'.op = "transmit_data"
                <=> Strategy_should_sync(sync_engine.strategy, tick, device_state,
                                         device_state.battery.percentage).sync
           /\ UNCHANGED <<fault_detector, predictive, tick, device_state>>
      /\ pc = "end"
        => /\ pc' \in {"device", "done"}
           /\ LET twin_state == DigitalTwin_get_state(twin)
              IN fault_detector' =
                   FaultDetector_check(fault_detector, tick, device_state, <<twin_state>>,
                                       twin_state.last_sync_tick, full_state_interval_s,
                                       device_result.is_sensing_tick).detector
           /\ predictive' = IF tick % 10 = 0
                            THEN PredictiveMaintenance_update(predictive, tick, device_state)
                            ELSE predictive
           /\ (tick % 10 = 0) <=> (predictive' # predictive)
           /\ UNCHANGED <<device, twin, sync_engine>> ]_vars

\* the tenth iteration has fed the predictor, after syncs that succeeded
\* and syncs that failed
C34_Witness ==
  /\ pc \in {"device", "done"}
  /\ Len(predictive.battery_history) = 1
  /\ predictive.battery_history[1].tick = 10
  /\ twin.sync_success_count > 0
  /\ twin.sync_fail_count > 0
  /\ Len(twin.drift_history) > twin.sync_success_count

\* C37: a device tick that runs leaves the task queue empty and counts the
\* tasks queued before it and the ones it schedules itself, each once.  A
\* transmission task transmit_data schedules in the sync step is queued
\* without touching the cycles and the utilization of the tick the sync
\* happened on, and the next device tick that runs counts it; a tick the
\* device is inactive on counts nothing.
C37_QueueDrainedEachTick ==
  [][ /\ pc = "device" /\ device.is_active /\ ~device.battery.depleted
        => LET own == IF device_result'.is_sensing_tick
                      THEN task_cost("sensing") + task_cost("processing")
                      ELSE 0
           IN /\ device'.cpu.task_queue = <<>>
              /\ device'.cpu.cycles_used_this_tick = queue_cycles(device.cpu.task_queue) + own
              /\ device'.cpu.total_cycles_used
                   = device.cpu.total_cycles_used + device'.cpu.cycles_used_this_tick
      /\ pc = "device" /\ ~(device.is_active /\ ~device.battery.depleted)
        => device'.cpu = device.cpu
      /\ pc = "sync" /\ ret'.op = "transmit_data" /\ device.is_active
        => /\ device'.cpu.task_queue
                = Append(device.cpu.task_queue, <<"transmission", task_cost("transmission")>>)
           /\ device.cpu.task_queue = <<>>
           /\ device'.cpu.cycles_used_this_tick = device.cpu.cycles_used_this_tick
           /\ device'.cpu.current_utilization = device.cpu.current_utilization
           /\ device'.cpu.total_cycles_used = device.cpu.total_cycles_used
      /\ pc = "sync" /\ ~(ret'.op = "transmit_data" /\ device.is_active)
        => device'.cpu = device.cpu ]_vars

\* an idle tick has just counted the transmission task of the sync of the
\* tick before it
C37_Witness ==
  /\ pc = "sync"
  /\ device.is_active
  /\ ~device_result.is_sensing_tick
  /\ device.cpu.task_queue = <<>>
  /\ device.cpu.cycles_used_this_tick = task_cost("transmission")
  /\ task_cost("transmission") > 0
  /\ sync_engine.total_syncs > 0

\* C38: every reading the edge processor enqueues is dequeued for
\* transmission, a critical one no later than the next sync attempt: a sync
\* attempt leaves the critical queue empty.
C38_ReadingsDequeued ==
  [][ pc = "sync" /\ ret'.op = "transmit_data"
        => edge'.priority_queue.critical_queue = <<>> ]_vars

\* C40: once battery.depleted is true the device sends nothing more: no step
\* changes total_packets_sent or total_bytes_sent, and the twin receives no
\* further successful sync.
C40_DepletedSendsNothing ==
  [][ device.battery.depleted
        => /\ device'.network.total_packets_sent = device.network.total_packets_sent
           /\ device'.network.total_bytes_sent = device.network.total_bytes_sent
           /\ twin'.sync_success_count = twin.sync_success_count ]_vars

\* C39: at the end of every loop iteration the engine and the twin have
\* counted every logged sync event, the twin's success count is the number
\* of successful events, and twin.last_sync_tick is the tick of the latest
\* successful event (0 if there is none).
C39_SyncBookkeepingAgrees ==
  LET events == sync_engine.sync_events
      successes == {i \in 1..Len(events) : events[i].success}
      latest == CHOOSE i \in successes : \A j \in successes : j <= i
  IN pc = "device" =>
       /\ sync_engine.total_syncs = Len(events)
       /\ twin.total_syncs = Len(events)
       /\ twin.sync_success_count = Cardinality(successes)
       /\ twin.last_sync_tick = IF successes = {} THEN 0 ELSE events[latest].tick

\* an iteration has ended whose sync failed after an earlier one succeeded
C39_Witness ==
  LET events == sync_engine.sync_events
  IN /\ pc = "device"
     /\ Len(events) >= 3
     /\ ~events[Len(events)].success
     /\ events[Len(events)].tick = tick - 1
     /\ \E i \in 1..(Len(events) - 1) : events[i].success
     /\ \E i \in 1..(Len(events) - 1) : ~events[i].success

\* ======================================================================
\* Component level: the sync step of the loop (main.py 162-177) under the
\* delta strategy, on snapshots whose battery drains by an amount of the
\* caller's choice between two syncs
\* ======================================================================
InitDelta == InitWith({"delta"})

\* the charge drained between two syncs: none, less than delta_threshold of
\* what is left, much more
SlowDrains == {0, 5, 150}

\* the tick at which the strategy's next sync is due
DueTick == sync_engine.strategy.last_sync_tick + full_state_interval_s

DrainedSnapshot(drain) ==
  [device_state EXCEPT !.tick = DueTick,
                       !.battery.remaining_mah = Max(0, @ - drain),
                       !.battery.total_consumed_mah = @ + drain]

\* the sync is due, the payload is prepared and the transmission has the
\* given outcome
DeltaSyncStep(drain, success) ==
  LET snapshot == DrainedSnapshot(drain)
      s == Strategy_should_sync(sync_engine.strategy, DueTick, snapshot,
                                snapshot.battery.percentage)
      p == Strategy_prepare_payload(s.strategy, snapshot)
      e == [sync_engine EXCEPT !.strategy = p.strategy]
  IN /\ calls < MaxDeltaCalls
     /\ s.sync
     /\ device_state' = snapshot
     /\ twin' = IF success THEN receive_sync(twin, snapshot, DueTick)
                ELSE record_sync_failure(twin, DueTick)
     /\ sync_engine' = record_sync(e, DueTick, 50, success)
     /\ ret' = [op |-> "prepare_payload",
                val |-> [payload |-> p.payload, success |-> success],
                was_depleted |-> FALSE]
     /\ tick' = DueTick
     /\ calls' = calls + 1
     /\ UNCHANGED <<config, runs, edge, predictive, logger, np_random, fault_detector,
                    last_alert_ticks, live_output,
                    device, pc, device_result, warnings_fired>>

DeltaSyncSent == \E drain \in SlowDrains : DeltaSyncStep(drain, TRUE)

DeltaSyncLost == \E drain \in SlowDrains : DeltaSyncStep(drain, FALSE)

NextDelta == DeltaSyncSent \/ DeltaSyncLost

SpecDelta == InitDelta /\ [][NextDelta]_vars

\* The receiver of the delta strategy's payloads: a full-state payload gives
\* it every numeric field, a delta payload the fields in its data
apply_payload(view, payload) ==
  IF payload.type = "full_state" THEN extract_numerics(payload.data)
  ELSE [key \in DOMAIN view \cup DOMAIN payload.data |->
          IF key \in DOMAIN payload.data THEN payload.data[key] ELSE view[key]]

\* the delta strategy and the receiver after prepare_payload has been called
\* on each of the snapshots in turn and every payload has arrived
RECURSIVE DeltaReplay(_)
DeltaReplay(snapshots) ==
  IF snapshots = <<>>
  THEN [strategy |-> Strategy_init("delta"), view |-> <<>>]
  ELSE LET before == DeltaReplay(SubSeq(snapshots, 1, Len(snapshots) - 1))
           p == DeltaSync_prepare_payload(before.strategy, snapshots[Len(snapshots)])
       IN [strategy |-> p.strategy, view |-> apply_payload(before.view, p.payload)]

\* the snapshots of the syncs the twin has received
SyncedSnapshots == [i \in 1..Len(twin.state_history) |-> twin.state_history[i].state]

\* held is within relative delta_threshold of value, taken of either
WithinDelta(held, value) ==
  \/ held = value
  \/ Abs(held - value) * 100 <= delta_threshold * Abs(value)
  \/ Abs(held - value) * 100 <= delta_threshold * Abs(held)

\* C36: with every transmission successful, the receiver of the delta
\* strategy's payloads holds after every sync, for every numeric field, the
\* device's value at that sync or one within relative delta_threshold of it.
C36_DeltaReceiverTracksDevice ==
  ( /\ sync_engine.strategy_name = "delta"
    /\ twin.sync_fail_count = 0
    /\ twin.state_history # <<>> )
  => LET device_values == extract_numerics(SyncedSnapshots[Len(SyncedSnapshots)])
         view == DeltaReplay(SyncedSnapshots).view
     IN \A key \in DOMAIN device_values :
          key \in DOMAIN view /\ WithinDelta(view[key], device_values[key])

\* C35: prepare_payload advances the strategy's bookkeeping whether or not
\* the transmission that follows succeeds: a sync attempt leaves
\* last_sync_tick at the tick of the snapshot and the delta and event-driven
\* baselines at its values; under full_state the attempt that follows a
\* failed one at tick t is at t + full_state_interval_s; and
\* twin.last_sync_tick <= strategy.last_sync_tick at every tick.
C35_BookkeepingAdvancesOnFailure ==
  [][ LET st == sync_engine'.strategy
          events == sync_engine'.sync_events
      IN /\ (pc = "sync" /\ ret'.op = "transmit_data") =>
              /\ st.last_sync_tick = device_state.tick
              /\ st.name = "delta" =>
                   st.last_synced_state = <<extract_numerics(device_state)>>
              /\ st.name = "event_driven" =>
                   st.last_synced_state =
                     <<[cpu |-> device_state.cpu, memory |-> device_state.memory,
                        battery |-> device_state.battery,
                        network |-> device_state.network]>>
         /\ st.name = "full_state" =>
              \A i \in 1..(Len(events) - 1) :
                ~events[i].success =>
                  events[i + 1].tick = events[i].tick + full_state_interval_s
         /\ twin'.last_sync_tick <= st.last_sync_tick ]_vars

\* under full_state a sync has failed and the next one has been attempted
C35_Witness ==
  LET events == sync_engine.sync_events
  IN /\ sync_engine.strategy_name = "full_state"
     /\ Len(events) >= 2
     /\ ~events[Len(events) - 1].success
     /\ events[Len(events)].tick = tick
     /\ ret.op = "transmit_data"
     /\ sync_engine.strategy.last_sync_tick > twin.last_sync_tick

\* C33: two runs of run_simulation with the same configuration and seed put
\* out the same thing tick by tick: after every iteration of a later run the
\* tick log and the state of the device, the twin, the sync engine and the
\* detector are those of the earlier run after the same iteration, and the
\* later run ends where the earlier one did.
C33_SameSeedSameRun ==
  \A r \in 1..Len(runs.finished) :
    LET earlier == runs.finished[r]
    IN /\ Len(runs.trace) <= Len(earlier)
       /\ \A i \in 1..Len(runs.trace) : runs.trace[i] = earlier[i]
       /\ pc = "done" => Len(runs.trace) = Len(earlier)

\* a second run has ended after several ticks, with a lost packet, a sync
\* that arrived and an alert in its log
C33_Witness ==
  /\ Len(runs.finished) = 1
  /\ pc = "done"
  /\ Len(runs.trace) >= 4
  /\ twin.sync_fail_count > 0
  /\ twin.sync_success_count > 0
  /\ logger.tick_data # <<>>
  /\ \E i \in 1..Len(logger.tick_data) : logger.tick_data[i].alerts # <<>>

====
